---- MODULE Spec2Model ----
(***************************************************************************)
(* Query cache and consistency layer of MicroGuide: DatabaseManager        *)
(* (src/src/lib/database.ts), the search result cache of AISearchEngine    *)
(* (src/src/lib/aiSearch.ts) and the delete handler of LearningPathsPage   *)
(* (src/src/components/pages/ProfilePage.tsx), run against a store that    *)
(* answers every call asynchronously.                                      *)
(*                                                                         *)
(* Every awaited store call is two steps: the store serves the request     *)
(* (Store...) and later the continuation of the caller runs (...After /    *)
(* ...Return).  Code between two awaits is one atomic step, as the         *)
(* JavaScript event loop runs it.                                          *)
(***************************************************************************)
EXTENDS Integers, Sequences, FiniteSets, TLC

\* ------------------------------------------------------------------------
\* Bounds of the model
\* ------------------------------------------------------------------------
MaxTicks == 3
MaxSettleTicks == 1
MaxSearches == 3
MaxSearchTicks == 2
MaxUITicks == 3

\* ------------------------------------------------------------------------
\* Program constants
\* ------------------------------------------------------------------------
CACHE_DURATION == 5 * 60 * 1000
SETTLE_DELAY == 1000
SEARCH_TTL == 5 * 60 * 1000

\* ------------------------------------------------------------------------
\* The catalog the store is loaded with
\* ------------------------------------------------------------------------
Users == {"u1", "u2"}
PathIds == {"p1", "p2"}
Undefined == "undefined"

Row(p) ==
  IF p = "p1"
    THEN [id |-> "p1", title |-> "React basics",
          description |-> "Learn react from scratch", created_by |-> "u1",
          is_public |-> TRUE, topic |-> "web-development",
          difficulty_level |-> "beginner", estimated_duration |-> 10,
          tags |-> <<"react", "frontend">>, total_nodes |-> 2,
          completion_rate |-> 0]
    ELSE IF p = "p9"
    THEN [id |-> "p9", title |-> "Design systems",
          description |-> "Components and tokens", created_by |-> "u1",
          is_public |-> TRUE, topic |-> "design",
          difficulty_level |-> "beginner", estimated_duration |-> 8,
          tags |-> <<"design">>, total_nodes |-> 1, completion_rate |-> 0]
    ELSE [id |-> "p2", title |-> "Design drafts",
          description |-> "Private design notes", created_by |-> "u1",
          is_public |-> FALSE, topic |-> "design",
          difficulty_level |-> "intermediate", estimated_duration |-> 5,
          tags |-> <<"design">>, total_nodes |-> 1, completion_rate |-> 0]

NullRow == [id |-> "null"]

\* completion_rate desc, total_nodes desc, created_at desc
StoreOrder == <<"p1", "p2", "p9">>

\* learning_nodes rows of a path, as the store happens to return them
NodesOf(p) == IF p = "p1" THEN <<2, 1>> ELSE <<1>>

\* ------------------------------------------------------------------------
\* Errors
\* ------------------------------------------------------------------------
NoError == [tag |-> "null"]

\* what the store client puts into the error field of a response
StoreErrors ==
  { [tag |-> "PostgrestError", instanceofError |-> TRUE,
     message |-> <<"connection lost">>],
    [tag |-> "PostgrestError", instanceofError |-> FALSE,
     message |-> <<"permission denied for table learning_paths">>] }

NewError(msg) == [tag |-> "Error", instanceofError |-> TRUE, message |-> msg]

NotFoundMessage == <<"Learning path not found or already deleted">>
NotOwnerMessage == <<"You can only delete paths you created">>
DeletePrefix == <<"Failed to delete learning path: ">>

\* the catch block of deletePath
WrapDeleteError_DropMessage(thrown) ==
  NewError(DeletePrefix \o <<"Unknown deletion error">>)

WrapDeleteError(thrown) ==
  LET errorMessage == IF thrown.instanceofError THEN thrown.message
                      ELSE <<"Unknown deletion error">>
  IN  NewError(DeletePrefix \o errorMessage)

\* ------------------------------------------------------------------------
\* Helpers
\* ------------------------------------------------------------------------
Range(s) == {s[i] : i \in DOMAIN s}

Last(s) == s[Len(s)]

Take(s, n) == IF Len(s) <= n THEN s ELSE SubSeq(s, 1, n)

RECURSIVE InsertSorted(_, _)
InsertSorted(x, s) ==
  IF s = <<>> THEN <<x>>
  ELSE IF x < Head(s) THEN <<x>> \o s
  ELSE <<Head(s)>> \o InsertSorted(x, Tail(s))

RECURSIVE SortAscending(_)
SortAscending(s) ==
  IF s = <<>> THEN <<>> ELSE InsertSorted(Head(s), SortAscending(Tail(s)))

\* ------------------------------------------------------------------------
\* JavaScript strings: a string is named by its text; CharsOf gives the
\* characters of the strings that the code searches in or splits
\* ------------------------------------------------------------------------
CharsOf(a) ==
  CASE
       a = "web development" -> <<"w", "e", "b", " ", "d", "e", "v", "e", "l", "o", "p", "m", "e", "n", "t">>
    [] a = "frontend" -> <<"f", "r", "o", "n", "t", "e", "n", "d">>
    [] a = "backend" -> <<"b", "a", "c", "k", "e", "n", "d">>
    [] a = "react" -> <<"r", "e", "a", "c", "t">>
    [] a = "javascript" -> <<"j", "a", "v", "a", "s", "c", "r", "i", "p", "t">>
    [] a = "python" -> <<"p", "y", "t", "h", "o", "n">>
    [] a = "machine learning" -> <<"m", "a", "c", "h", "i", "n", "e", " ", "l", "e", "a", "r", "n", "i", "n", "g">>
    [] a = "ai" -> <<"a", "i">>
    [] a = "blockchain" -> <<"b", "l", "o", "c", "k", "c", "h", "a", "i", "n">>
    [] a = "crypto" -> <<"c", "r", "y", "p", "t", "o">>
    [] a = "ui/ux" -> <<"u", "i", "/", "u", "x">>
    [] a = "design" -> <<"d", "e", "s", "i", "g", "n">>
    [] a = "marketing" -> <<"m", "a", "r", "k", "e", "t", "i", "n", "g">>
    [] a = "entrepreneurship" -> <<"e", "n", "t", "r", "e", "p", "r", "e", "n", "e", "u", "r", "s", "h", "i", "p">>
    [] a = "advanced" -> <<"a", "d", "v", "a", "n", "c", "e", "d">>
    [] a = "expert" -> <<"e", "x", "p", "e", "r", "t">>
    [] a = "intermediate" -> <<"i", "n", "t", "e", "r", "m", "e", "d", "i", "a", "t", "e">>
    [] a = "medium" -> <<"m", "e", "d", "i", "u", "m">>
    [] a = "beginner" -> <<"b", "e", "g", "i", "n", "n", "e", "r">>
    [] a = "basic" -> <<"b", "a", "s", "i", "c">>
    [] a = "intro" -> <<"i", "n", "t", "r", "o">>
    [] a = "quick" -> <<"q", "u", "i", "c", "k">>
    [] a = "crash course" -> <<"c", "r", "a", "s", "h", " ", "c", "o", "u", "r", "s", "e">>
    [] a = "comprehensive" -> <<"c", "o", "m", "p", "r", "e", "h", "e", "n", "s", "i", "v", "e">>
    [] a = "complete" -> <<"c", "o", "m", "p", "l", "e", "t", "e">>
    [] a = "deep" -> <<"d", "e", "e", "p">>
    [] a = "master" -> <<"m", "a", "s", "t", "e", "r">>
    [] a = "hands-on" -> <<"h", "a", "n", "d", "s", "-", "o", "n">>
    [] a = "project" -> <<"p", "r", "o", "j", "e", "c", "t">>
    [] a = "build" -> <<"b", "u", "i", "l", "d">>
    [] a = "theory" -> <<"t", "h", "e", "o", "r", "y">>
    [] a = "concept" -> <<"c", "o", "n", "c", "e", "p", "t">>
    [] a = "understand" -> <<"u", "n", "d", "e", "r", "s", "t", "a", "n", "d">>
    [] a = "learn" -> <<"l", "e", "a", "r", "n">>
    [] a = "how" -> <<"h", "o", "w">>
    [] a = "to" -> <<"t", "o">>
    [] a = "the" -> <<"t", "h", "e">>
    [] a = "a" -> <<"a">>
    [] a = "an" -> <<"a", "n">>
    [] a = "and" -> <<"a", "n", "d">>
    [] a = "or" -> <<"o", "r">>
    [] a = "but" -> <<"b", "u", "t">>
    [] a = "in" -> <<"i", "n">>
    [] a = "on" -> <<"o", "n">>
    [] a = "at" -> <<"a", "t">>
    [] a = "for" -> <<"f", "o", "r">>
    [] a = "with" -> <<"w", "i", "t", "h">>
    [] a = "data science" -> <<"d", "a", "t", "a", " ", "s", "c", "i", "e", "n", "c", "e">>
    [] a = "artificial intelligence" -> <<"a", "r", "t", "i", "f", "i", "c", "i", "a", "l", " ", "i", "n", "t", "e", "l", "l", "i", "g", "e", "n", "c", "e">>
    [] a = "cryptocurrency" -> <<"c", "r", "y", "p", "t", "o", "c", "u", "r", "r", "e", "n", "c", "y">>
    [] a = "business" -> <<"b", "u", "s", "i", "n", "e", "s", "s">>
    [] a = "web-development" -> <<"w", "e", "b", "-", "d", "e", "v", "e", "l", "o", "p", "m", "e", "n", "t">>
    [] a = "data-science" -> <<"d", "a", "t", "a", "-", "s", "c", "i", "e", "n", "c", "e">>
    [] a = "ai-ml" -> <<"a", "i", "-", "m", "l">>
    [] a = "web3" -> <<"w", "e", "b", "3">>
    [] a = "React basics" -> <<"R", "e", "a", "c", "t", " ", "b", "a", "s", "i", "c", "s">>
    [] a = "Learn react from scratch" -> <<"L", "e", "a", "r", "n", " ", "r", "e", "a", "c", "t", " ", "f", "r", "o", "m", " ", "s", "c", "r", "a", "t", "c", "h">>
    [] a = "Design drafts" -> <<"D", "e", "s", "i", "g", "n", " ", "d", "r", "a", "f", "t", "s">>
    [] a = "Private design notes" -> <<"P", "r", "i", "v", "a", "t", "e", " ", "d", "e", "s", "i", "g", "n", " ", "n", "o", "t", "e", "s">>
    [] a = "advanced machine learning deep dive" -> <<"a", "d", "v", "a", "n", "c", "e", "d", " ", "m", "a", "c", "h", "i", "n", "e", " ", "l", "e", "a", "r", "n", "i", "n", "g", " ", "d", "e", "e", "p", " ", "d", "i", "v", "e">>
    [] a = "chess" -> <<"c", "h", "e", "s", "s">>
    [] a = "board game" -> <<"b", "o", "a", "r", "d", " ", "g", "a", "m", "e">>
    [] a = "strategy game" -> <<"s", "t", "r", "a", "t", "e", "g", "y", " ", "g", "a", "m", "e">>
    [] a = "checkmate" -> <<"c", "h", "e", "c", "k", "m", "a", "t", "e">>
    [] a = "tactics" -> <<"t", "a", "c", "t", "i", "c", "s">>
    [] a = "cooking" -> <<"c", "o", "o", "k", "i", "n", "g">>
    [] a = "cook" -> <<"c", "o", "o", "k">>
    [] a = "recipe" -> <<"r", "e", "c", "i", "p", "e">>
    [] a = "kitchen" -> <<"k", "i", "t", "c", "h", "e", "n">>
    [] a = "food" -> <<"f", "o", "o", "d">>
    [] a = "culinary" -> <<"c", "u", "l", "i", "n", "a", "r", "y">>
    [] a = "baking" -> <<"b", "a", "k", "i", "n", "g">>
    [] a = "chef" -> <<"c", "h", "e", "f">>
    [] a = "guitar" -> <<"g", "u", "i", "t", "a", "r">>
    [] a = "music" -> <<"m", "u", "s", "i", "c">>
    [] a = "instrument" -> <<"i", "n", "s", "t", "r", "u", "m", "e", "n", "t">>
    [] a = "strings" -> <<"s", "t", "r", "i", "n", "g", "s">>
    [] a = "chord" -> <<"c", "h", "o", "r", "d">>
    [] a = "acoustic" -> <<"a", "c", "o", "u", "s", "t", "i", "c">>
    [] a = "electric" -> <<"e", "l", "e", "c", "t", "r", "i", "c">>
    [] a = "programming" -> <<"p", "r", "o", "g", "r", "a", "m", "m", "i", "n", "g">>
    [] a = "coding" -> <<"c", "o", "d", "i", "n", "g">>
    [] a = "html" -> <<"h", "t", "m", "l">>
    [] a = "css" -> <<"c", "s", "s">>
    [] a = "software" -> <<"s", "o", "f", "t", "w", "a", "r", "e">>
    [] a = "developer" -> <<"d", "e", "v", "e", "l", "o", "p", "e", "r">>
    [] a = "photography" -> <<"p", "h", "o", "t", "o", "g", "r", "a", "p", "h", "y">>
    [] a = "photo" -> <<"p", "h", "o", "t", "o">>
    [] a = "camera" -> <<"c", "a", "m", "e", "r", "a">>
    [] a = "picture" -> <<"p", "i", "c", "t", "u", "r", "e">>
    [] a = "image" -> <<"i", "m", "a", "g", "e">>
    [] a = "lens" -> <<"l", "e", "n", "s">>
    [] a = "exposure" -> <<"e", "x", "p", "o", "s", "u", "r", "e">>
    [] a = "how to" -> <<"h", "o", "w", " ", "t", "o">>
    [] a = "guide to" -> <<"g", "u", "i", "d", "e", " ", "t", "o">>
    [] a = "tutorial" -> <<"t", "u", "t", "o", "r", "i", "a", "l">>
    [] a = "course" -> <<"c", "o", "u", "r", "s", "e">>
    [] a = "study" -> <<"s", "t", "u", "d", "y">>
    [] a = "basics" -> <<"b", "a", "s", "i", "c", "s">>
    [] a = "fundamental" -> <<"f", "u", "n", "d", "a", "m", "e", "n", "t", "a", "l">>
    [] a = "fundamentals" -> <<"f", "u", "n", "d", "a", "m", "e", "n", "t", "a", "l", "s">>
    [] a = "introduction" -> <<"i", "n", "t", "r", "o", "d", "u", "c", "t", "i", "o", "n">>
    [] a = "learn chess" -> <<"l", "e", "a", "r", "n", " ", "c", "h", "e", "s", "s">>
    [] a = "easy recipe" -> <<"e", "a", "s", "y", " ", "r", "e", "c", "i", "p", "e">>
    [] a = "Guitar basics" -> <<"G", "u", "i", "t", "a", "r", " ", "b", "a", "s", "i", "c", "s">>
    [] a = "photo editing" -> <<"p", "h", "o", "t", "o", " ", "e", "d", "i", "t", "i", "n", "g">>
    [] a = "learn knitting basics" -> <<"l", "e", "a", "r", "n", " ", "k", "n", "i", "t", "t", "i", "n", "g", " ", "b", "a", "s", "i", "c", "s">>
    [] a = "quantum physics" -> <<"q", "u", "a", "n", "t", "u", "m", " ", "p", "h", "y", "s", "i", "c", "s">>
    [] a = "Topic" -> <<"T", "o", "p", "i", "c">>
    [] a = "react python machine crypto design marketing" -> <<"r", "e", "a", "c", "t", " ", "p", "y", "t", "h", "o", "n", " ", "m", "a", "c", "h", "i", "n", "e", " ", "c", "r", "y", "p", "t", "o", " ", "d", "e", "s", "i", "g", "n", " ", "m", "a", "r", "k", "e", "t", "i", "n", "g">>
    [] a = "" -> <<>>

UpperCase == <<"A", "B", "C", "D", "E", "F", "G", "H", "I", "J", "K", "L", "M",
               "N", "O", "P", "Q", "R", "S", "T", "U", "V", "W", "X", "Y", "Z">>
LowerCase == <<"a", "b", "c", "d", "e", "f", "g", "h", "i", "j", "k", "l", "m",
               "n", "o", "p", "q", "r", "s", "t", "u", "v", "w", "x", "y", "z">>

\* String.prototype.toLowerCase
ToLowerCase(cs) ==
  [i \in DOMAIN cs |->
     IF \E j \in DOMAIN UpperCase : UpperCase[j] = cs[i]
       THEN LowerCase[CHOOSE j \in DOMAIN UpperCase : UpperCase[j] = cs[i]]
       ELSE cs[i]]

\* String.prototype.includes
Includes(cs, sub) ==
  \E i \in 0..(Len(cs) - Len(sub)) : SubSeq(cs, i + 1, i + Len(sub)) = sub

\* String.prototype.split(/\s+/)
RECURSIVE SplitFrom(_, _, _)
SplitFrom(cs, i, word) ==
  IF i > Len(cs) THEN <<word>>
  ELSE IF cs[i] = " "
    THEN IF i > 1 /\ cs[i - 1] = " "
           THEN SplitFrom(cs, i + 1, word)
           ELSE <<word>> \o SplitFrom(cs, i + 1, <<>>)
  ELSE SplitFrom(cs, i + 1, Append(word, cs[i]))

SplitWhitespace(cs) == SplitFrom(cs, 1, <<>>)

\* ------------------------------------------------------------------------
\* State
\* ------------------------------------------------------------------------
VARIABLES
  user,          \* id of the signed-in user (useAuth)
  store,         \* ids of the rows present in learning_paths
  user_progress, \* rows of user_progress, in created_at order
  now,           \* Date.now()
  ticks,         \* number of clock steps taken
  queryCache,    \* DatabaseManager.queryCache: key -> [data, timestamp]
  del,           \* deletePath calls
  fp,            \* DatabaseManager.fetchPaths calls
  pn,            \* fetchPathWithNodes calls
  gp,            \* getUserProgress calls
  openaiConfigured, \* OpenAIService.openai is set (an API key is configured)
  searchCache,   \* AISearchEngine.searchCache: key -> result
  timers,        \* pending expiry timers of the search cache
  sr,            \* intelligentSearch calls
  searches,      \* number of intelligentSearch calls made
  cachedLog,     \* for each key, the last result cached and when
  searchQuery,        \* LearningPathsPage state
  selectedCategory,
  selectedDifficulty,
  uiPaths,            \* the state `paths`
  loading,
  searchResults,
  isSearching,
  toasts,             \* the kinds of toast shown so far
  hd,                 \* the handleDeletePath call
  new_paths,          \* rows of learning_paths inserted since the start
  learning_nodes,     \* rows of learning_nodes inserted since the start
  profile,            \* the statistics of the user's profiles row
  cp,                 \* the createPath call
  bn,                 \* the batchCreateNodes call
  sv,                 \* the saveGeneratedPath call
  up,                 \* the updateUserProgress calls
  gen,                \* the generatePath call
  ts,                 \* the generateTopicSuggestions call
  rk                  \* the calculateRelevanceScore calls

dbVars == <<user, store, user_progress, now, ticks, queryCache, del, fp, pn, gp>>
searchVars == <<openaiConfigured, searchCache, timers, sr, searches, cachedLog>>
uiVars == <<searchQuery, selectedCategory, selectedDifficulty, uiPaths, loading,
            searchResults, isSearching, toasts, hd>>
writeVars == <<new_paths, learning_nodes, profile, cp, bn, sv, up>>
genVars == <<gen, ts, rk>>

DeleteCalls == {"d1", "d2"}
UpdateCalls == {"w1", "w2"}
PathsCalls == {"f1", "f2"}
NodesCalls == {"n1"}
ProgressCalls == {"g1"}
SearchCalls == {"s1", "s2"}

EmptyCache == [k \in {} |-> NoError]

CacheSet(cache, key, entry) ==
  [k \in DOMAIN cache \cup {key} |-> IF k = key THEN entry ELSE cache[k]]

\* ------------------------------------------------------------------------
\* The store: row-level security and queries
\* ------------------------------------------------------------------------
\* policy "Public paths visible to all" (FOR SELECT)
Visible(row, uid) == row.is_public \/ row.created_by = uid

NoFilters ==
  [topic |-> Undefined, difficulty |-> Undefined, isPublic |-> Undefined,
   createdBy |-> Undefined, limit |-> 0]

\* the filters LearningPathsPage passes for a topic / difficulty selection
UIFilters(category, difficulty) ==
  [topic |-> IF category # "all" THEN category ELSE Undefined,
   difficulty |-> IF difficulty # "all" THEN difficulty ELSE Undefined,
   isPublic |-> "true", createdBy |-> Undefined, limit |-> 50]

\* JSON.stringify(filters): undefined members are left out
Stringify(f) ==
  <<"{">>
  \o (IF f.topic # Undefined THEN <<"topic", f.topic>> ELSE <<>>)
  \o (IF f.difficulty # Undefined THEN <<"difficulty", f.difficulty>> ELSE <<>>)
  \o (IF f.isPublic # Undefined THEN <<"isPublic", f.isPublic>> ELSE <<>>)
  \o (IF f.createdBy # Undefined THEN <<"createdBy", f.createdBy>> ELSE <<>>)
  \o (IF f.limit # 0 THEN <<"limit", ToString(f.limit)>> ELSE <<>>)
  \o <<"}">>

PathsKey(f) == <<"paths-">> \o Stringify(f)
PathNodesKey(p) == <<"path-nodes-", p>>
ProgressKey(u, p) == <<"progress-", u, "-", p>>

MatchesFilters(row, f) ==
  /\ f.topic # Undefined => row.topic = f.topic
  /\ f.difficulty # Undefined => row.difficulty_level = f.difficulty
  /\ f.isPublic # Undefined => row.is_public = (f.isPublic = "true")
  /\ f.createdBy # Undefined => row.created_by = f.createdBy

\* the rows the store returns for the query fetchPaths builds
QueryPaths(rows, f, uid) ==
  LET keep(p) == p \in rows /\ Visible(Row(p), uid) /\ MatchesFilters(Row(p), f)
      all == SelectSeq(StoreOrder, keep)
      ids == IF f.limit # 0 THEN Take(all, f.limit) ELSE all
  IN  [i \in DOMAIN ids |-> Row(ids[i])]

NoResp == [data |-> <<>>, error |-> NoError, pending |-> TRUE]
Resp(data, error) == [data |-> data, error |-> error, pending |-> FALSE]

\* ------------------------------------------------------------------------
\* DatabaseManager.deletePath
\* ------------------------------------------------------------------------
IdleDelete ==
  [pc |-> "idle", pathId |-> "none", userId |-> "none", resp |-> NoResp,
   error |-> NoError, wake |-> 0, trace |-> <<>>]

\* the select ... maybeSingle() of deletePath: zero rows is data = null
SelectPathForDelete(rows, p, uid) ==
  IF p \in rows /\ Visible(Row(p), uid)
    THEN [id |-> Row(p).id, created_by |-> Row(p).created_by,
          title |-> Row(p).title]
    ELSE NullRow

\* what the code between the lookup and the delete statement throws
LookupThrows_NoOwnerCheck(resp, uid) ==
  IF resp.error # NoError THEN resp.error
  ELSE IF resp.data = NullRow THEN NewError(NotFoundMessage)
  ELSE NoError

LookupThrows_SameMessage(resp, uid) ==
  IF resp.error # NoError THEN resp.error
  ELSE IF resp.data = NullRow THEN NewError(NotOwnerMessage)
  ELSE IF resp.data.created_by # uid THEN NewError(NotOwnerMessage)
  ELSE NoError

LookupThrows(resp, uid) ==
  IF resp.error # NoError THEN resp.error
  ELSE IF resp.data = NullRow THEN NewError(NotFoundMessage)
  ELSE IF resp.data.created_by # uid THEN NewError(NotOwnerMessage)
  ELSE NoError

\* lines 398-407: the call runs up to its lookup
DeletePathStarted(c, p, uid) ==
  [del EXCEPT ![c] =
     [@ EXCEPT !.pc = "select", !.pathId = p, !.userId = uid,
               !.trace = <<"select">>]]

DeletePathCall(c, p) ==
  /\ del[c].pc = "idle"
  /\ del' = DeletePathStarted(c, p, user)
  /\ UNCHANGED <<user, store, user_progress, now, ticks, queryCache, fp, pn, gp>>
  /\ UNCHANGED <<searchVars, uiVars>>
  /\ UNCHANGED <<writeVars, genVars>>

StoreSelectPath(c) ==
  /\ del[c].pc = "select"
  /\ \E r \in {Resp(NullRow, e) : e \in StoreErrors}
           \cup {Resp(SelectPathForDelete(store, del[c].pathId, del[c].userId),
                      NoError)} :
       del' = [del EXCEPT ![c] = [@ EXCEPT !.pc = "selected", !.resp = r]]
  /\ UNCHANGED <<user, store, user_progress, now, ticks, queryCache, fp, pn, gp>>
  /\ UNCHANGED <<searchVars, uiVars>>
  /\ UNCHANGED <<writeVars, genVars>>

\* lines 409-431: the checks after the lookup, then the delete statement
DeletePathAfterSelect(c) ==
  /\ del[c].pc = "selected"
  /\ LET thrown == LookupThrows(del[c].resp, del[c].userId) IN
       del' = [del EXCEPT ![c] =
         IF thrown # NoError
           THEN [@ EXCEPT !.pc = "rejected", !.error = WrapDeleteError(thrown),
                          !.trace = @ \o <<"reject">>]
           ELSE [@ EXCEPT !.pc = "delete", !.resp = NoResp,
                          !.trace = @ \o <<"delete">>]]
  /\ UNCHANGED <<user, store, user_progress, now, ticks, queryCache, fp, pn, gp>>
  /\ UNCHANGED <<searchVars, uiVars>>
  /\ UNCHANGED <<writeVars, genVars>>

\* The store serves the delete statement.  It answers with an error, or
\* without one; without one the row is gone, or no row was affected (the row
\* is absent, or row-level security lets no row through: the migrations
\* define no DELETE policy on learning_paths).  Dependent rows cascade.
StoreDeletePath(c) ==
  /\ del[c].pc = "delete"
  /\ \/ \E e \in StoreErrors :
          /\ del' = [del EXCEPT ![c] =
               [@ EXCEPT !.pc = "deleted", !.resp = Resp(<<>>, e)]]
          /\ UNCHANGED <<store, user_progress>>
     \/ /\ del' = [del EXCEPT ![c] =
             [@ EXCEPT !.pc = "deleted", !.resp = Resp(<<>>, NoError)]]
        /\ \/ /\ store' = store \ {del[c].pathId}
              /\ user_progress' =
                   SelectSeq(user_progress,
                             LAMBDA r : r.path_id # del[c].pathId)
           \/ UNCHANGED <<store, user_progress>>
  /\ UNCHANGED <<user, now, ticks, queryCache, fp, pn, gp>>
  /\ UNCHANGED <<searchVars, uiVars>>
  /\ UNCHANGED <<writeVars, genVars>>

\* lines 433-448: on an error rethrow, else clear the cache and start the pause
DeletePathAfterDelete_NoClear(c) ==
  /\ del[c].pc = "deleted"
  /\ IF del[c].resp.error # NoError
       THEN /\ del' = [del EXCEPT ![c] =
                 [@ EXCEPT !.pc = "rejected",
                           !.error = WrapDeleteError(del[c].resp.error),
                           !.trace = @ \o <<"reject">>]]
            /\ UNCHANGED queryCache
       ELSE /\ del' = [del EXCEPT ![c] =
                 [@ EXCEPT !.pc = "settle", !.wake = now + SETTLE_DELAY,
                           !.trace = @ \o <<"ack", "clear", "pause">>]]
            /\ UNCHANGED queryCache
  /\ UNCHANGED <<user, store, user_progress, now, ticks, fp, pn, gp>>
  /\ UNCHANGED <<searchVars, uiVars>>
  /\ UNCHANGED <<writeVars, genVars>>

DeletePathAfterDelete_ClearOnError(c) ==
  /\ del[c].pc = "deleted"
  /\ IF del[c].resp.error # NoError
       THEN /\ del' = [del EXCEPT ![c] =
                 [@ EXCEPT !.pc = "rejected",
                           !.error = WrapDeleteError(del[c].resp.error),
                           !.trace = @ \o <<"reject">>]]
            /\ queryCache' = EmptyCache
       ELSE /\ del' = [del EXCEPT ![c] =
                 [@ EXCEPT !.pc = "settle", !.wake = now + SETTLE_DELAY,
                           !.trace = @ \o <<"ack", "clear", "pause">>]]
            /\ queryCache' = EmptyCache
  /\ UNCHANGED <<user, store, user_progress, now, ticks, fp, pn, gp>>
  /\ UNCHANGED <<searchVars, uiVars>>
  /\ UNCHANGED <<writeVars, genVars>>

DeletePathAfterDelete(c) ==
  /\ del[c].pc = "deleted"
  /\ IF del[c].resp.error # NoError
       THEN /\ del' = [del EXCEPT ![c] =
                 [@ EXCEPT !.pc = "rejected",
                           !.error = WrapDeleteError(del[c].resp.error),
                           !.trace = @ \o <<"reject">>]]
            /\ UNCHANGED queryCache
       ELSE /\ del' = [del EXCEPT ![c] =
                 [@ EXCEPT !.pc = "settle", !.wake = now + SETTLE_DELAY,
                           !.trace = @ \o <<"ack", "clear", "pause">>]]
            /\ queryCache' = EmptyCache
  /\ UNCHANGED <<user, store, user_progress, now, ticks, fp, pn, gp>>
  /\ UNCHANGED <<searchVars, uiVars>>
  /\ UNCHANGED <<writeVars, genVars>>

\* the timer of line 448 fires and the call resolves
DeletePathSettled(c) ==
  /\ del[c].pc = "settle"
  /\ now >= del[c].wake
  /\ del' = [del EXCEPT ![c] =
       [@ EXCEPT !.pc = "resolved", !.trace = @ \o <<"resolve">>]]
  /\ UNCHANGED <<user, store, user_progress, now, ticks, queryCache, fp, pn, gp>>
  /\ UNCHANGED <<searchVars, uiVars>>
  /\ UNCHANGED <<writeVars, genVars>>

\* ------------------------------------------------------------------------
\* DatabaseManager.fetchPaths
\* ------------------------------------------------------------------------
IdleFetch ==
  [pc |-> "idle", filters |-> NoFilters, resp |-> NoResp, result |-> <<>>]

FetchFilters == { UIFilters("all", "all") }

\* lines 34-75: the call runs up to its query
FetchPathsStarted(r, f) ==
  [fp EXCEPT ![r] =
     [pc |-> "query", filters |-> f, resp |-> NoResp, result |-> <<>>]]

FetchPathsCall(r, f) ==
  /\ fp[r].pc \in {"idle", "done"}
  /\ fp' = FetchPathsStarted(r, f)
  /\ UNCHANGED <<user, store, user_progress, now, ticks, queryCache, del, pn, gp>>
  /\ UNCHANGED <<searchVars, uiVars>>
  /\ UNCHANGED <<writeVars, genVars>>

StoreQueryPaths(r) ==
  /\ fp[r].pc = "query"
  /\ \E a \in {Resp(<<>>, e) : e \in StoreErrors}
           \cup {Resp(QueryPaths(store, fp[r].filters, user), NoError)} :
       fp' = [fp EXCEPT ![r] = [@ EXCEPT !.pc = "answered", !.resp = a]]
  /\ UNCHANGED <<user, store, user_progress, now, ticks, queryCache, del, pn, gp>>
  /\ UNCHANGED <<searchVars, uiVars>>
  /\ UNCHANGED <<writeVars, genVars>>

\* lines 77-92: throw and return [] on an error, else cache and return
FetchPathsReturn(r) ==
  /\ fp[r].pc = "answered"
  /\ IF fp[r].resp.error # NoError
       THEN /\ fp' = [fp EXCEPT ![r] = [@ EXCEPT !.pc = "done", !.result = <<>>]]
            /\ UNCHANGED queryCache
       ELSE /\ fp' = [fp EXCEPT ![r] =
                 [@ EXCEPT !.pc = "done", !.result = fp[r].resp.data]]
            /\ queryCache' =
                 CacheSet(queryCache, PathsKey(fp[r].filters),
                          [data |-> fp[r].resp.data, timestamp |-> now])
  /\ UNCHANGED <<user, store, user_progress, now, ticks, del, pn, gp>>
  /\ UNCHANGED <<searchVars, uiVars>>
  /\ UNCHANGED <<writeVars, genVars>>

\* ------------------------------------------------------------------------
\* The cache lookup of fetchPathWithNodes and getUserProgress
\* ------------------------------------------------------------------------
\* `cached && Date.now() - cached.timestamp < this.CACHE_DURATION`
IsFresh_Inclusive(cache, key, t) ==
  /\ key \in DOMAIN cache
  /\ t - cache[key].timestamp <= CACHE_DURATION

IsFresh_NoExpiry(cache, key, t) == key \in DOMAIN cache

IsFresh(cache, key, t) ==
  /\ key \in DOMAIN cache
  /\ t - cache[key].timestamp < CACHE_DURATION

\* a call of a cached read: arg is its argument, found says that the key was
\* in the cache when the call started and age is the age of that entry, hit
\* says that the result came from the cache, and reads counts the store reads
\* the call has issued
IdleRead ==
  [pc |-> "idle", arg |-> "none", resp |-> NoResp, result |-> <<>>,
   found |-> FALSE, age |-> 0, hit |-> FALSE, reads |-> 0]

\* lines 97-104 and 203-210: serve from the cache or issue the store read
CachedReadStart(key, arg) ==
  LET found == key \in DOMAIN queryCache
      age == IF found THEN now - queryCache[key].timestamp ELSE 0
  IN  IF IsFresh(queryCache, key, now)
        THEN [pc |-> "done", arg |-> arg, resp |-> NoResp,
              result |-> queryCache[key].data, found |-> found, age |-> age,
              hit |-> TRUE, reads |-> 0]
        ELSE [pc |-> "query", arg |-> arg, resp |-> NoResp, result |-> <<>>,
              found |-> found, age |-> age, hit |-> FALSE, reads |-> 1]

\* ------------------------------------------------------------------------
\* DatabaseManager.fetchPathWithNodes
\* ------------------------------------------------------------------------
\* select with learning_nodes(*) ... single(): zero rows is an error
NoRowsError ==
  [tag |-> "PostgrestError", instanceofError |-> FALSE,
   message |-> <<"JSON object requested, multiple (or no) rows returned">>]

SelectPathWithNodes(rows, p, uid) ==
  IF p \in rows /\ Visible(Row(p), uid)
    THEN Resp(<<[id |-> p, learning_nodes |-> NodesOf(p)]>>, NoError)
    ELSE Resp(<<>>, NoRowsError)

FetchPathWithNodesCall(r, p) ==
  /\ pn[r].pc \in {"idle", "done"}
  /\ pn' = [pn EXCEPT ![r] = CachedReadStart(PathNodesKey(p), p)]
  /\ UNCHANGED <<user, store, user_progress, now, ticks, queryCache, del, fp, gp>>
  /\ UNCHANGED <<searchVars, uiVars>>
  /\ UNCHANGED <<writeVars, genVars>>

StoreSelectPathWithNodes(r) ==
  /\ pn[r].pc = "query"
  /\ \E a \in {Resp(<<>>, e) : e \in StoreErrors}
           \cup {SelectPathWithNodes(store, pn[r].arg, user)} :
       pn' = [pn EXCEPT ![r] = [@ EXCEPT !.pc = "answered", !.resp = a]]
  /\ UNCHANGED <<user, store, user_progress, now, ticks, queryCache, del, fp, gp>>
  /\ UNCHANGED <<searchVars, uiVars>>
  /\ UNCHANGED <<writeVars, genVars>>

\* lines 114-133: null on an error, else sort the nodes, cache and return
FetchPathWithNodesReturn(r) ==
  /\ pn[r].pc = "answered"
  /\ IF pn[r].resp.error # NoError
       THEN /\ pn' = [pn EXCEPT ![r] = [@ EXCEPT !.pc = "done", !.result = <<>>]]
            /\ UNCHANGED queryCache
       ELSE LET path == pn[r].resp.data[1]
                result == <<[id |-> path.id,
                             nodes |-> SortAscending(path.learning_nodes)]>>
            IN  /\ pn' = [pn EXCEPT ![r] =
                     [@ EXCEPT !.pc = "done", !.result = result]]
                /\ queryCache' =
                     CacheSet(queryCache, PathNodesKey(pn[r].arg),
                              [data |-> result, timestamp |-> now])
  /\ UNCHANGED <<user, store, user_progress, now, ticks, del, fp, gp>>
  /\ UNCHANGED <<searchVars, uiVars>>
  /\ UNCHANGED <<writeVars, genVars>>

\* ------------------------------------------------------------------------
\* DatabaseManager.getUserProgress
\* ------------------------------------------------------------------------
\* policy "Users can view own progress" and the two eq filters
SelectProgress(rows, u, p, uid) ==
  SelectSeq(rows, LAMBDA r : r.user_id = uid /\ r.user_id = u /\ r.path_id = p)

GetUserProgressCall(r, p) ==
  /\ gp[r].pc \in {"idle", "done"}
  /\ gp' = [gp EXCEPT ![r] = CachedReadStart(ProgressKey(user, p), p)]
  /\ UNCHANGED <<user, store, user_progress, now, ticks, queryCache, del, fp, pn>>
  /\ UNCHANGED <<searchVars, uiVars>>
  /\ UNCHANGED <<writeVars, genVars>>

StoreSelectProgress(r) ==
  /\ gp[r].pc = "query"
  /\ \E a \in {Resp(<<>>, e) : e \in StoreErrors}
           \cup {Resp(SelectProgress(user_progress, user, gp[r].arg, user),
                      NoError)} :
       gp' = [gp EXCEPT ![r] = [@ EXCEPT !.pc = "answered", !.resp = a]]
  /\ UNCHANGED <<user, store, user_progress, now, ticks, queryCache, del, fp, pn>>
  /\ UNCHANGED <<searchVars, uiVars>>
  /\ UNCHANGED <<writeVars, genVars>>

\* lines 221-230: [] on an error, else cache and return
GetUserProgressReturn_CacheFailure(r) ==
  /\ gp[r].pc = "answered"
  /\ gp' = [gp EXCEPT ![r] =
       [@ EXCEPT !.pc = "done",
                 !.result = IF gp[r].resp.error # NoError THEN <<>>
                            ELSE gp[r].resp.data]]
  /\ queryCache' =
       CacheSet(queryCache, ProgressKey(user, gp[r].arg),
                [data |-> IF gp[r].resp.error # NoError THEN <<>>
                          ELSE gp[r].resp.data,
                 timestamp |-> now])
  /\ UNCHANGED <<user, store, user_progress, now, ticks, del, fp, pn>>
  /\ UNCHANGED <<searchVars, uiVars>>
  /\ UNCHANGED <<writeVars, genVars>>

GetUserProgressReturn(r) ==
  /\ gp[r].pc = "answered"
  /\ IF gp[r].resp.error # NoError
       THEN /\ gp' = [gp EXCEPT ![r] = [@ EXCEPT !.pc = "done", !.result = <<>>]]
            /\ UNCHANGED queryCache
       ELSE /\ gp' = [gp EXCEPT ![r] =
                 [@ EXCEPT !.pc = "done", !.result = gp[r].resp.data]]
            /\ queryCache' =
                 CacheSet(queryCache, ProgressKey(user, gp[r].arg),
                          [data |-> gp[r].resp.data, timestamp |-> now])
  /\ UNCHANGED <<user, store, user_progress, now, ticks, del, fp, pn>>
  /\ UNCHANGED <<searchVars, uiVars>>
  /\ UNCHANGED <<writeVars, genVars>>

\* ------------------------------------------------------------------------
\* The clock
\* ------------------------------------------------------------------------
Tick(d, max) ==
  /\ ticks < max
  /\ now' = now + d
  /\ ticks' = ticks + 1
  /\ UNCHANGED <<user, store, user_progress, queryCache, del, fp, pn, gp>>
  /\ UNCHANGED <<searchVars, uiVars>>
  /\ UNCHANGED <<writeVars, genVars>>

\* ------------------------------------------------------------------------
\* AISearchEngine: query intent
\* ------------------------------------------------------------------------
\* topicMappings, in insertion order
TopicMappings ==
  << <<"web development", "web-development">>, <<"frontend", "web-development">>,
     <<"backend", "web-development">>, <<"react", "web-development">>,
     <<"javascript", "web-development">>, <<"python", "data-science">>,
     <<"machine learning", "ai-ml">>, <<"ai", "ai-ml">>,
     <<"blockchain", "web3">>, <<"crypto", "web3">>, <<"ui/ux", "design">>,
     <<"design", "design">>, <<"marketing", "business">>,
     <<"entrepreneurship", "business">> >>

StopWords ==
  {"learn", "how", "to", "the", "a", "an", "and", "or", "but", "in", "on",
   "at", "for", "with"}

Has(cs, a) == Includes(cs, CharsOf(a))

Min(S) == CHOOSE x \in S : \A y \in S : x <= y

\* confidence is kept in tenths: 5 is 0.5, 10 is 1
ParseQueryIntent(query) ==
  LET lowerQuery == ToLowerCase(CharsOf(query))
      words == SplitWhitespace(lowerQuery)
      hits == {i \in DOMAIN TopicMappings : Has(lowerQuery, TopicMappings[i][1])}
      topic == IF hits = {} THEN "" ELSE TopicMappings[Min(hits)][2]
      c0 == IF hits = {} THEN 5 ELSE 8
      difficulty ==
        IF Has(lowerQuery, "advanced") \/ Has(lowerQuery, "expert")
          THEN "advanced"
        ELSE IF Has(lowerQuery, "intermediate") \/ Has(lowerQuery, "medium")
          THEN "intermediate"
        ELSE "beginner"
      named ==
        \E a \in {"advanced", "expert", "intermediate", "medium", "beginner",
                  "basic", "intro"} : Has(lowerQuery, a)
      confidence == IF named THEN c0 + 1 ELSE c0
      estimatedDuration ==
        IF Has(lowerQuery, "quick") \/ Has(lowerQuery, "crash course") THEN 5
        ELSE IF Has(lowerQuery, "comprehensive") \/ Has(lowerQuery, "complete")
          THEN 30
        ELSE IF Has(lowerQuery, "deep") \/ Has(lowerQuery, "master") THEN 50
        ELSE 10
      learningType ==
        IF Has(lowerQuery, "hands-on") \/ Has(lowerQuery, "project")
           \/ Has(lowerQuery, "build") THEN "practical"
        ELSE IF Has(lowerQuery, "theory") \/ Has(lowerQuery, "concept")
                \/ Has(lowerQuery, "understand") THEN "theoretical"
        ELSE "mixed"
      keywords ==
        SelectSeq(words,
                  LAMBDA w : (\A a \in StopWords : w # CharsOf(a)) /\ Len(w) > 2)
  IN  [topic |-> topic, difficulty |-> difficulty, keywords |-> keywords,
       estimatedDuration |-> estimatedDuration,
       confidence |-> IF confidence < 10 THEN confidence ELSE 10,
       learningType |-> learningType]

\* mapTopicFromAI
AITopicMappings ==
  << <<"web development", "web-development">>, <<"frontend", "web-development">>,
     <<"backend", "web-development">>, <<"data science", "data-science">>,
     <<"machine learning", "ai-ml">>, <<"artificial intelligence", "ai-ml">>,
     <<"blockchain", "web3">>, <<"cryptocurrency", "web3">>,
     <<"design", "design">>, <<"ui/ux", "design">>, <<"business", "business">>,
     <<"marketing", "business">> >>

MapTopicFromAI(aiTopic) ==
  IF aiTopic = "" THEN ""
  ELSE LET lowerTopic == ToLowerCase(CharsOf(aiTopic))
           hits == {i \in DOMAIN AITopicMappings :
                      Has(lowerTopic, AITopicMappings[i][1])}
       IN  IF hits = {} THEN "" ELSE AITopicMappings[Min(hits)][2]

\* What enhanceSearchQuery resolves to: its fallback, a parsed answer, or a
\* parsed answer without the members intelligentSearch reads.
EnhanceFallback ==
  [ok |-> TRUE, suggestedTopics |-> <<>>, difficulty |-> "beginner",
   estimatedDuration |-> 10]

\* how the completion call ends: the request fails, the content is not JSON,
\* the content parses to the documented schema, or it parses to something
\* without the members intelligentSearch reads
EnhanceOutcomes ==
  {"request_error", "unparseable", "parsed", "parsed_other_shape"}

\* lines 201-245 of enhanceSearchQuery: what it resolves to
EnhanceSearchQuery(outcome) ==
  CASE outcome = "parsed" ->
         [ok |-> TRUE, suggestedTopics |-> <<"design">>,
          difficulty |-> "advanced", estimatedDuration |-> 30]
    [] outcome = "parsed_other_shape" ->
         [ok |-> FALSE, suggestedTopics |-> <<>>, difficulty |-> "beginner",
          estimatedDuration |-> 10]
    [] OTHER -> EnhanceFallback

EnhanceAnswers == {EnhanceSearchQuery(outcome) : outcome \in EnhanceOutcomes}

\* lines 141-151 with the confidences added in place of Math.max
EnhanceIntent_AddConfidence(intent, enhanced) ==
  IF ~enhanced.ok THEN intent
  ELSE LET first == IF enhanced.suggestedTopics = <<>> THEN ""
                    ELSE enhanced.suggestedTopics[1]
           mapped == MapTopicFromAI(first)
       IN  [intent EXCEPT
              !.topic = IF mapped # "" THEN mapped ELSE intent.topic,
              !.difficulty = enhanced.difficulty,
              !.estimatedDuration = enhanced.estimatedDuration,
              !.confidence = intent.confidence + 8]

\* lines 141-151: the override of the heuristic intent
EnhanceIntent(intent, enhanced) ==
  IF ~enhanced.ok THEN intent
  ELSE LET first == IF enhanced.suggestedTopics = <<>> THEN ""
                    ELSE enhanced.suggestedTopics[1]
           mapped == MapTopicFromAI(first)
       IN  [intent EXCEPT
              !.topic = IF mapped # "" THEN mapped ELSE intent.topic,
              !.difficulty = enhanced.difficulty,
              !.estimatedDuration = enhanced.estimatedDuration,
              !.confidence = IF intent.confidence > 8 THEN intent.confidence
                             ELSE 8]

\* ------------------------------------------------------------------------
\* AISearchEngine: ranking and suggestions
\* ------------------------------------------------------------------------
CountWhere(seq, Test(_)) == Cardinality({i \in DOMAIN seq : Test(seq[i])})

Abs(x) == IF x < 0 THEN -x ELSE x

\* calculateRelevanceScore with the distance in duration added to the score
RelevanceScore_RewardDistance(path, intent, query) ==
  LET lowerQuery == ToLowerCase(CharsOf(query))
      lowerTitle == ToLowerCase(CharsOf(path.title))
      lowerDescription == ToLowerCase(CharsOf(path.description))
      durationDiff == Abs(path.estimated_duration - intent.estimatedDuration)
      tagged(k) == \E i \in DOMAIN path.tags :
                     Includes(ToLowerCase(CharsOf(path.tags[i])), k)
  IN  (IF Includes(lowerTitle, lowerQuery) THEN 100 ELSE 0)
      + 50 * CountWhere(intent.keywords, LAMBDA k : Includes(lowerTitle, k))
      + (IF Includes(lowerDescription, lowerQuery) THEN 50 ELSE 0)
      + 20 * CountWhere(intent.keywords, LAMBDA k : Includes(lowerDescription, k))
      + (IF path.topic = intent.topic THEN 80 ELSE 0)
      + (IF path.difficulty_level = intent.difficulty THEN 30 ELSE 0)
      + durationDiff
      + 20 * path.completion_rate
      + (IF path.total_nodes < 30 THEN path.total_nodes ELSE 30)
      + 10 * CountWhere(intent.keywords, tagged)

\* calculateRelevanceScore, in tenths of a point
RelevanceScore(path, intent, query) ==
  LET lowerQuery == ToLowerCase(CharsOf(query))
      lowerTitle == ToLowerCase(CharsOf(path.title))
      lowerDescription == ToLowerCase(CharsOf(path.description))
      durationDiff == Abs(path.estimated_duration - intent.estimatedDuration)
      tagged(k) == \E i \in DOMAIN path.tags :
                     Includes(ToLowerCase(CharsOf(path.tags[i])), k)
  IN  (IF Includes(lowerTitle, lowerQuery) THEN 100 ELSE 0)
      + 50 * CountWhere(intent.keywords, LAMBDA k : Includes(lowerTitle, k))
      + (IF Includes(lowerDescription, lowerQuery) THEN 50 ELSE 0)
      + 20 * CountWhere(intent.keywords, LAMBDA k : Includes(lowerDescription, k))
      + (IF path.topic = intent.topic THEN 80 ELSE 0)
      + (IF path.difficulty_level = intent.difficulty THEN 30 ELSE 0)
      + (IF 50 - durationDiff > 0 THEN 50 - durationDiff ELSE 0)
      + 20 * path.completion_rate
      + (IF path.total_nodes < 30 THEN path.total_nodes ELSE 30)
      + 10 * CountWhere(intent.keywords, tagged)

\* Array.prototype.sort with (a, b) => b.relevanceScore - a.relevanceScore:
\* stable, descending
RECURSIVE InsertByScore(_, _)
InsertByScore(x, s) ==
  IF s = <<>> THEN <<x>>
  ELSE IF x.relevanceScore > Head(s).relevanceScore THEN <<x>> \o s
  ELSE <<Head(s)>> \o InsertByScore(x, Tail(s))

RECURSIVE SortByScore(_)
SortByScore(s) ==
  IF s = <<>> THEN <<>>
  ELSE InsertByScore(s[Len(s)], SortByScore(SubSeq(s, 1, Len(s) - 1)))

WithScore(path, score) ==
  [k \in DOMAIN path \cup {"relevanceScore"} |->
     IF k = "relevanceScore" THEN score ELSE path[k]]

RankSearchResults(paths, intent, query) ==
  SortByScore([i \in DOMAIN paths |->
                 WithScore(paths[i], RelevanceScore(paths[i], intent, query))])

\* Set.prototype.add on a Set kept in insertion order
RECURSIVE AddAll(_, _)
AddAll(set, items) ==
  IF items = <<>> THEN set
  ELSE AddAll(IF Head(items) \in Range(set) THEN set
              ELSE Append(set, Head(items)), Tail(items))

FirstWord(cs) ==
  IF \E i \in DOMAIN cs : cs[i] = " "
    THEN SubSeq(cs, 1, Min({i \in DOMAIN cs : cs[i] = " "}) - 1)
    ELSE cs

RECURSIVE Flatten(_)
Flatten(ss) == IF ss = <<>> THEN <<>> ELSE Head(ss) \o Flatten(Tail(ss))

\* generateTopicSuggestions without the slice(0, 6) of line 340
TopicSuggestions_NoCap(intent, popularTopics) ==
  LET own == IF intent.topic # "" THEN <<intent.topic>> ELSE <<>>
      forKeyword(k) ==
        LET hit(m) == \/ Includes(CharsOf(m[1]), k)
                      \/ Includes(k, FirstWord(CharsOf(m[1])))
            ms == SelectSeq(TopicMappings, hit)
        IN  [i \in DOMAIN ms |-> ms[i][2]]
      byKeyword == Flatten([i \in DOMAIN intent.keywords |->
                              forKeyword(intent.keywords[i])])
  IN  AddAll(AddAll(AddAll(<<>>, own), byKeyword), popularTopics)

\* generateTopicSuggestions, given the rows of the popular-topics read
TopicSuggestions(intent, popularTopics) ==
  LET own == IF intent.topic # "" THEN <<intent.topic>> ELSE <<>>
      forKeyword(k) ==
        LET hit(m) == \/ Includes(CharsOf(m[1]), k)
                      \/ Includes(k, FirstWord(CharsOf(m[1])))
            ms == SelectSeq(TopicMappings, hit)
        IN  [i \in DOMAIN ms |-> ms[i][2]]
      byKeyword == Flatten([i \in DOMAIN intent.keywords |->
                              forKeyword(intent.keywords[i])])
  IN  Take(AddAll(AddAll(AddAll(<<>>, own), byKeyword), popularTopics), 6)

\* ------------------------------------------------------------------------
\* AISearchEngine: the store reads of intelligentSearch
\* ------------------------------------------------------------------------
NoDuration == <<>>

\* rough stand-in of the full-text match on title and description: some
\* keyword is a word of one of them
TextMatch(row, keywords) ==
  LET ws == Range(SplitWhitespace(ToLowerCase(CharsOf(row.title))))
            \cup Range(SplitWhitespace(ToLowerCase(CharsOf(row.description))))
  IN  \E i \in DOMAIN keywords : keywords[i] \in ws

\* lines 155-189
SearchPaths(rows, intent, duration, uid) ==
  LET keep(p) ==
        LET row == Row(p) IN
          /\ p \in rows
          /\ Visible(row, uid)
          /\ NodesOf(p) # <<>>
          /\ row.is_public
          /\ intent.topic # "" =>
               (row.topic = intent.topic \/ intent.topic \in Range(row.tags))
          /\ row.difficulty_level = intent.difficulty
          /\ duration # NoDuration =>
               (row.estimated_duration >= duration[1]
                /\ row.estimated_duration <= duration[2])
          /\ intent.keywords # <<>> => TextMatch(row, intent.keywords)
      ids == Take(SelectSeq(StoreOrder, keep), 20)
  IN  [i \in DOMAIN ids |-> Row(ids[i])]

\* lines 328-333
PopularTopics(rows, uid) ==
  LET keep(p) == p \in rows /\ Visible(Row(p), uid) /\ Row(p).is_public
      ids == Take(SelectSeq(StoreOrder, keep), 5)
  IN  [i \in DOMAIN ids |-> Row(ids[i]).topic]

\* ------------------------------------------------------------------------
\* AISearchEngine.intelligentSearch
\* ------------------------------------------------------------------------
NoSearchFilters == [defined |-> FALSE, topic |-> Undefined,
                    difficulty |-> Undefined, duration |-> NoDuration]

\* the filters LearningPathsPage.performIntelligentSearch passes
UISearchFilters(category, difficulty) ==
  [defined |-> TRUE,
   topic |-> IF category # "all" THEN category ELSE Undefined,
   difficulty |-> IF difficulty # "all" THEN difficulty ELSE Undefined,
   duration |-> NoDuration]

\* `${query}-${JSON.stringify(filters)}`
SearchKey(query, f) ==
  <<query, "-">> \o
  (IF ~f.defined THEN <<"undefined">>
   ELSE <<"{">>
        \o (IF f.topic # Undefined THEN <<"topic", f.topic>> ELSE <<>>)
        \o (IF f.difficulty # Undefined THEN <<"difficulty", f.difficulty>>
            ELSE <<>>)
        \o (IF f.duration # NoDuration
              THEN <<"duration", ToString(f.duration[1]), ToString(f.duration[2])>>
              ELSE <<>>)
        \o <<"}">>)

NoIntent == [topic |-> "", difficulty |-> "", keywords |-> <<>>,
             estimatedDuration |-> 0, confidence |-> 0, learningType |-> ""]

DegradedResult ==
  [oid |-> 0, paths |-> <<>>, suggestedTopics |-> <<>>,
   estimatedDuration |-> 10, difficulty |-> "beginner", confidence |-> 0]

\* a call: n is its number, expect is the oid of the result that was cached
\* for its key less than SEARCH_TTL before it started (0 if none), deleted is
\* the set of paths whose delete had been reported and applied by then
IdleSearch ==
  [pc |-> "idle", n |-> 0, query |-> "", filters |-> NoSearchFilters,
   intent |-> NoIntent, resp |-> NoResp, ranked |-> <<>>,
   result |-> DegradedResult, hit |-> FALSE, expect |-> 0, deleted |-> {},
   enhance |-> "none"]

DeletedPaths ==
  {del[c].pathId : c \in {d \in DeleteCalls : del[d].pc = "resolved"}} \ store

CacheRemove(cache, key) == [k \in DOMAIN cache \ {key} |-> cache[k]]

\* lines 128-152 without a configured completion service, and 128-141 with one
SearchStarted(s, q, f) ==
  LET key == SearchKey(q, f)
      expect == IF key \in DOMAIN cachedLog
                   /\ now - cachedLog[key].at < SEARCH_TTL
                  THEN cachedLog[key].oid ELSE 0
      call == [IdleSearch EXCEPT !.n = searches + 1, !.query = q,
                                 !.filters = f, !.expect = expect,
                                 !.deleted = DeletedPaths]
  IN  [sr EXCEPT ![s] =
         IF key \in DOMAIN searchCache
           THEN [call EXCEPT !.pc = "done", !.hit = TRUE,
                             !.result = searchCache[key]]
           ELSE [call EXCEPT !.pc = IF openaiConfigured THEN "enhance"
                                    ELSE "query",
                             !.intent = ParseQueryIntent(q)]]

SearchCall(s, q, f) ==
  /\ sr[s].pc \in {"idle", "done"}
  /\ searches < MaxSearches
  /\ searches' = searches + 1
  /\ sr' = SearchStarted(s, q, f)
  /\ UNCHANGED <<openaiConfigured, searchCache, timers, cachedLog>>
  /\ UNCHANGED <<dbVars, uiVars>>
  /\ UNCHANGED <<writeVars, genVars>>

\* lines 141-152: enhanceSearchQuery resolves and the intent is overridden
SearchAfterEnhance(s) ==
  /\ sr[s].pc = "enhance"
  /\ \E outcome \in EnhanceOutcomes :
       sr' = [sr EXCEPT ![s] =
         [@ EXCEPT !.pc = "query", !.enhance = outcome,
                   !.intent = EnhanceIntent(sr[s].intent,
                                            EnhanceSearchQuery(outcome))]]
  /\ UNCHANGED <<openaiConfigured, searchCache, timers, searches, cachedLog>>
  /\ UNCHANGED <<dbVars, uiVars>>
  /\ UNCHANGED <<writeVars, genVars>>

StoreSearchPaths(s) ==
  /\ sr[s].pc = "query"
  /\ \E a \in {Resp(<<>>, e) : e \in StoreErrors}
           \cup {Resp(SearchPaths(store, sr[s].intent, sr[s].filters.duration,
                                  user), NoError)} :
       sr' = [sr EXCEPT ![s] = [@ EXCEPT !.pc = "answered", !.resp = a]]
  /\ UNCHANGED <<openaiConfigured, searchCache, timers, searches, cachedLog>>
  /\ UNCHANGED <<dbVars, uiVars>>
  /\ UNCHANGED <<writeVars, genVars>>

\* lines 191-197 and 212-221 with the error of the read treated as no rows
SearchAfterQuery_IgnoreError(s) ==
  /\ sr[s].pc = "answered"
  /\ sr' = [sr EXCEPT ![s] =
       [@ EXCEPT !.pc = "topics", !.resp = NoResp,
                 !.ranked = RankSearchResults(sr[s].resp.data,
                                              sr[s].intent, sr[s].query)]]
  /\ UNCHANGED <<openaiConfigured, searchCache, timers, searches, cachedLog>>
  /\ UNCHANGED <<dbVars, uiVars>>
  /\ UNCHANGED <<writeVars, genVars>>

\* lines 191-197 and 212-221: degrade on an error, else rank and ask for the
\* popular topics
SearchAfterQuery(s) ==
  /\ sr[s].pc = "answered"
  /\ sr' = [sr EXCEPT ![s] =
       IF sr[s].resp.error # NoError
         THEN [@ EXCEPT !.pc = "done", !.result = DegradedResult,
                        !.intent = NoIntent, !.resp = NoResp,
                          !.enhance = "none"]
         ELSE [@ EXCEPT !.pc = "topics", !.resp = NoResp,
                        !.ranked = RankSearchResults(sr[s].resp.data,
                                                     sr[s].intent, sr[s].query)]]
  /\ UNCHANGED <<openaiConfigured, searchCache, timers, searches, cachedLog>>
  /\ UNCHANGED <<dbVars, uiVars>>
  /\ UNCHANGED <<writeVars, genVars>>

StorePopularTopics(s) ==
  /\ sr[s].pc = "topics"
  /\ \E a \in {Resp(<<>>, e) : e \in StoreErrors}
           \cup {Resp(PopularTopics(store, user), NoError)} :
       sr' = [sr EXCEPT ![s] = [@ EXCEPT !.pc = "topics_answered", !.resp = a]]
  /\ UNCHANGED <<openaiConfigured, searchCache, timers, searches, cachedLog>>
  /\ UNCHANGED <<dbVars, uiVars>>
  /\ UNCHANGED <<writeVars, genVars>>

\* lines 197-211: build the result, cache it and start its expiry timer
SearchReturn(s) ==
  /\ sr[s].pc = "topics_answered"
  /\ LET key == SearchKey(sr[s].query, sr[s].filters)
         result ==
           [oid |-> sr[s].n, paths |-> sr[s].ranked,
            suggestedTopics |-> TopicSuggestions(sr[s].intent, sr[s].resp.data),
            estimatedDuration |-> sr[s].intent.estimatedDuration,
            difficulty |-> sr[s].intent.difficulty,
            confidence |-> sr[s].intent.confidence]
     IN  /\ sr' = [sr EXCEPT ![s] =
                [@ EXCEPT !.pc = "done", !.result = result, !.ranked = <<>>,
                          !.intent = NoIntent, !.resp = NoResp,
                          !.enhance = "none"]]
         /\ searchCache' = CacheSet(searchCache, key, result)
         /\ timers' = Append(timers, [key |-> key, due |-> now + SEARCH_TTL])
         /\ cachedLog' = CacheSet(cachedLog, key, [oid |-> result.oid, at |-> now])
  /\ UNCHANGED <<openaiConfigured, searches>>
  /\ UNCHANGED <<dbVars, uiVars>>
  /\ UNCHANGED <<writeVars, genVars>>

\* line 209: an expiry timer fires
TimerFires(i) ==
  /\ i \in DOMAIN timers
  /\ now >= timers[i].due
  /\ searchCache' = CacheRemove(searchCache, timers[i].key)
  /\ timers' = [j \in 1..(Len(timers) - 1) |->
                  IF j < i THEN timers[j] ELSE timers[j + 1]]
  /\ UNCHANGED <<openaiConfigured, sr, searches, cachedLog>>
  /\ UNCHANGED <<dbVars, uiVars>>
  /\ UNCHANGED <<writeVars, genVars>>

SearchQueries == {"react"}

SearchStep(calls) ==
  \E s \in calls :
    \/ \E q \in SearchQueries : SearchCall(s, q, NoSearchFilters)
    \/ StoreSearchPaths(s)
    \/ SearchAfterQuery(s)
    \/ StorePopularTopics(s)
    \/ SearchReturn(s)

EnhanceStep == \E s \in SearchCalls : SearchAfterEnhance(s)

TimerStep == \E i \in 1..MaxSearches : TimerFires(i)

\* ------------------------------------------------------------------------
\* LearningPathsPage: the filters, the search box and handleDeletePath
\* ------------------------------------------------------------------------
Categories == {"all", "design"}
Queries == {"react"}

IdleHandler ==
  [pc |-> "idle", pathId |-> "none", category |-> "all", difficulty |-> "all",
   wake |-> 0]

\* lines 451-455
DisplayPaths ==
  IF searchQuery # "" THEN searchResults
  ELSE SelectSeq(uiPaths, LAMBDA path :
         /\ selectedCategory = "all" \/ path.topic = selectedCategory
         /\ selectedDifficulty = "all"
              \/ path.difficulty_level = selectedDifficulty)

WithoutPath(rows, p) == SelectSeq(rows, LAMBDA path : path.id # p)

\* the page shows a spinner in place of its controls while loading (line 589);
\* the visitor acts on a page that has finished its search and its delete
Interactive == ~loading /\ ~isSearching /\ hd.pc = "idle"

\* the category select: both effects run (lines 388-398)
SetSelectedCategory(category) ==
  /\ Interactive
  /\ category # selectedCategory
  /\ selectedCategory' = category
  /\ loading' = TRUE
  /\ fp' = FetchPathsStarted("f1", UIFilters(category, selectedDifficulty))
  /\ IF searchQuery # ""
       THEN /\ searches < MaxSearches
            /\ searches' = searches + 1
            /\ isSearching' = TRUE
            /\ sr' = SearchStarted("s1", searchQuery,
                                   UISearchFilters(category, selectedDifficulty))
       ELSE UNCHANGED <<searches, isSearching, sr>>
  /\ UNCHANGED <<searchQuery, selectedDifficulty, uiPaths, searchResults,
                 toasts, hd>>
  /\ UNCHANGED <<openaiConfigured, searchCache, timers, cachedLog>>
  /\ UNCHANGED <<user, store, user_progress, now, ticks, queryCache, del, pn, gp>>
  /\ UNCHANGED <<writeVars, genVars>>

\* the search box: the search effect runs (lines 392-398 and 428-436)
SetSearchQuery(q) ==
  /\ Interactive
  /\ q # searchQuery
  /\ searches < MaxSearches
  /\ searchQuery' = q
  /\ searches' = searches + 1
  /\ isSearching' = TRUE
  /\ sr' = SearchStarted("s1", q,
                         UISearchFilters(selectedCategory, selectedDifficulty))
  /\ UNCHANGED <<selectedCategory, selectedDifficulty, uiPaths, loading,
                 searchResults, toasts, hd>>
  /\ UNCHANGED <<openaiConfigured, searchCache, timers, cachedLog>>
  /\ UNCHANGED dbVars
  /\ UNCHANGED <<writeVars, genVars>>

\* lines 409-416
FetchPathsLoaded ==
  /\ loading
  /\ fp["f1"].pc = "done"
  /\ uiPaths' = fp["f1"].result
  /\ loading' = FALSE
  /\ UNCHANGED <<searchQuery, selectedCategory, selectedDifficulty,
                 searchResults, isSearching, toasts, hd>>
  /\ UNCHANGED <<dbVars, searchVars>>
  /\ UNCHANGED <<writeVars, genVars>>

\* lines 438-448
SearchLoaded ==
  /\ isSearching
  /\ sr["s1"].pc = "done"
  /\ searchResults' = sr["s1"].result.paths
  /\ toasts' = IF sr["s1"].result.confidence < 5
                 THEN toasts \cup {"no-perfect-matches"} ELSE toasts
  /\ isSearching' = FALSE
  /\ UNCHANGED <<searchQuery, selectedCategory, selectedDifficulty, uiPaths,
                 loading, hd>>
  /\ UNCHANGED <<dbVars, searchVars>>
  /\ UNCHANGED <<writeVars, genVars>>

\* PathCard shows the delete button to the creator only (canDelete)
CanDelete(path) == path.created_by = user

\* lines 496-524: the optimistic removal and the call of deletePath
HandleDeletePath(p) ==
  /\ Interactive
  /\ del["d1"].pc = "idle"
  /\ \E i \in DOMAIN DisplayPaths :
       DisplayPaths[i].id = p /\ CanDelete(DisplayPaths[i])
  /\ toasts' = toasts \cup {"loading"}
  /\ uiPaths' = WithoutPath(uiPaths, p)
  /\ searchResults' = WithoutPath(searchResults, p)
  /\ del' = DeletePathStarted("d1", p, user)
  /\ hd' = [pc |-> "deleting", pathId |-> p, category |-> selectedCategory,
            difficulty |-> selectedDifficulty, wake |-> 0]
  /\ UNCHANGED <<searchQuery, selectedCategory, selectedDifficulty, loading,
                 isSearching>>
  /\ UNCHANGED <<user, store, user_progress, now, ticks, queryCache, fp, pn, gp>>
  /\ UNCHANGED searchVars
  /\ UNCHANGED <<writeVars, genVars>>

\* lines 525-533 and 562: deletePath resolved
HandleDeleteResolved ==
  /\ hd.pc = "deleting"
  /\ del["d1"].pc = "resolved"
  /\ toasts' = (toasts \ {"loading"}) \cup {"deleted"}
  /\ hd' = [hd EXCEPT !.pc = "timer", !.wake = now + 1000]
  /\ UNCHANGED <<searchQuery, selectedCategory, selectedDifficulty, uiPaths,
                 loading, searchResults, isSearching>>
  /\ UNCHANGED <<dbVars, searchVars>>
  /\ UNCHANGED <<writeVars, genVars>>

\* lines 564-572: deletePath rejected; forceRefresh clears the cache and waits
HandleDeleteRejected ==
  /\ hd.pc = "deleting"
  /\ del["d1"].pc = "rejected"
  /\ toasts' = toasts \cup {"failed-to-delete"}
  /\ queryCache' = EmptyCache
  /\ hd' = [hd EXCEPT !.pc = "restore_refresh", !.wake = now + SETTLE_DELAY]
  /\ UNCHANGED <<searchQuery, selectedCategory, selectedDifficulty, uiPaths,
                 loading, searchResults, isSearching>>
  /\ UNCHANGED <<user, store, user_progress, now, ticks, del, fp, pn, gp>>
  /\ UNCHANGED searchVars
  /\ UNCHANGED <<writeVars, genVars>>

\* lines 533-536: the verification timer fires; forceRefresh clears the cache
\* and waits
VerifyTimerFires ==
  /\ hd.pc = "timer"
  /\ now >= hd.wake
  /\ queryCache' = EmptyCache
  /\ hd' = [hd EXCEPT !.pc = "verify_refresh", !.wake = now + SETTLE_DELAY]
  /\ UNCHANGED <<searchQuery, selectedCategory, selectedDifficulty, uiPaths,
                 loading, searchResults, isSearching, toasts>>
  /\ UNCHANGED <<user, store, user_progress, now, ticks, del, fp, pn, gp>>
  /\ UNCHANGED searchVars
  /\ UNCHANGED <<writeVars, genVars>>

\* lines 539-544 and 573-578: forceRefresh resolved; the re-read is issued
\* with the filters of the render the handler was created in
RefreshDone ==
  /\ hd.pc \in {"verify_refresh", "restore_refresh"}
  /\ now >= hd.wake
  /\ fp' = FetchPathsStarted("f2", UIFilters(hd.category, hd.difficulty))
  /\ hd' = [hd EXCEPT !.pc = IF hd.pc = "verify_refresh" THEN "verify_fetch"
                             ELSE "restore_fetch"]
  /\ UNCHANGED <<searchQuery, selectedCategory, selectedDifficulty, uiPaths,
                 loading, searchResults, isSearching, toasts>>
  /\ UNCHANGED <<user, store, user_progress, now, ticks, queryCache, del, pn, gp>>
  /\ UNCHANGED searchVars
  /\ UNCHANGED <<writeVars, genVars>>

\* lines 546-557
VerifyFetched ==
  /\ hd.pc = "verify_fetch"
  /\ fp["f2"].pc = "done"
  /\ LET freshPaths == fp["f2"].result
         stillExists == \E i \in DOMAIN freshPaths : freshPaths[i].id = hd.pathId
     IN  /\ uiPaths' = freshPaths
         /\ toasts' = IF stillExists THEN toasts \cup {"verification-failed"}
                      ELSE toasts
  /\ hd' = [hd EXCEPT !.pc = "verified"]
  /\ UNCHANGED <<searchQuery, selectedCategory, selectedDifficulty, loading,
                 searchResults, isSearching>>
  /\ UNCHANGED <<dbVars, searchVars>>
  /\ UNCHANGED <<writeVars, genVars>>

\* line 579
RestoreFetched ==
  /\ hd.pc = "restore_fetch"
  /\ fp["f2"].pc = "done"
  /\ uiPaths' = fp["f2"].result
  /\ hd' = [hd EXCEPT !.pc = "restored"]
  /\ UNCHANGED <<searchQuery, selectedCategory, selectedDifficulty, loading,
                 searchResults, isSearching, toasts>>
  /\ UNCHANGED <<dbVars, searchVars>>
  /\ UNCHANGED <<writeVars, genVars>>

\* the page before its first render: lines 360-369
UIIdle ==
  /\ searchQuery = ""
  /\ selectedCategory = "all"
  /\ selectedDifficulty = "all"
  /\ uiPaths = <<>>
  /\ loading = FALSE
  /\ searchResults = <<>>
  /\ isSearching = FALSE
  /\ toasts = {}
  /\ hd = IdleHandler

\* ------------------------------------------------------------------------
\* The path generator: generatePath and the documents it builds
\* (pathGenerator.ts); confidences are in tenths
\* ------------------------------------------------------------------------
IsString(v) == v # Undefined

\* lines 67-625: the topic templates, in insertion order; a module's
\* exercises and assessments are given by their number
TopicDatabase ==
  <<
    \* lines 69-222
    [key |-> "chess", category |-> "strategy-games", estimatedHours |-> 30,
     modules |-> <<
        [resources |->
           <<[type |-> "course", duration |-> 60], [type |-> "video", duration |-> 45], [type |-> "course", duration |-> 90]>>,
         exercises |-> 4, assessments |-> 3],
        [resources |->
           <<[type |-> "article", duration |-> 30], [type |-> "course", duration |-> 120], [type |-> "course", duration |-> 90]>>,
         exercises |-> 4, assessments |-> 3],
        [resources |->
           <<[type |-> "article", duration |-> 25], [type |-> "course", duration |-> 60], [type |-> "video", duration |-> 40]>>,
         exercises |-> 4, assessments |-> 3] >>],
    \* lines 225-332
    [key |-> "cooking", category |-> "life-skills", estimatedHours |-> 25,
     modules |-> <<
        [resources |->
           <<[type |-> "article", duration |-> 20], [type |-> "video", duration |-> 15], [type |-> "article", duration |-> 25]>>,
         exercises |-> 4, assessments |-> 3],
        [resources |->
           <<[type |-> "video", duration |-> 30], [type |-> "article", duration |-> 20], [type |-> "video", duration |-> 25]>>,
         exercises |-> 4, assessments |-> 3] >>],
    \* lines 335-442
    [key |-> "guitar", category |-> "music", estimatedHours |-> 40,
     modules |-> <<
        [resources |->
           <<[type |-> "video", duration |-> 45], [type |-> "course", duration |-> 120], [type |-> "article", duration |-> 15]>>,
         exercises |-> 4, assessments |-> 3],
        [resources |->
           <<[type |-> "video", duration |-> 30], [type |-> "video", duration |-> 25], [type |-> "article", duration |-> 20]>>,
         exercises |-> 4, assessments |-> 3] >>],
    \* lines 450-557
    [key |-> "programming", category |-> "technology", estimatedHours |-> 50,
     modules |-> <<
        [resources |->
           <<[type |-> "course", duration |-> 180], [type |-> "article", duration |-> 120], [type |-> "video", duration |-> 90]>>,
         exercises |-> 4, assessments |-> 3],
        [resources |->
           <<[type |-> "course", duration |-> 150], [type |-> "article", duration |-> 30], [type |-> "video", duration |-> 120]>>,
         exercises |-> 4, assessments |-> 3] >>],
    \* lines 560-621
    [key |-> "photography", category |-> "creative", estimatedHours |-> 35,
     modules |-> <<
        [resources |->
           <<[type |-> "article", duration |-> 45], [type |-> "video", duration |-> 30], [type |-> "article", duration |-> 25]>>,
         exercises |-> 4, assessments |-> 3] >>]
  >>

\* lines 648-654
KeywordMap ==
  <<
    [topicKey |-> "chess",
     keywords |-> <<"chess", "board game", "strategy game", "checkmate", "tactics">>],
    [topicKey |-> "cooking",
     keywords |-> <<"cooking", "cook", "recipe", "kitchen", "food", "culinary", "baking", "chef">>],
    [topicKey |-> "guitar",
     keywords |-> <<"guitar", "music", "instrument", "strings", "chord", "acoustic", "electric">>],
    [topicKey |-> "programming",
     keywords |-> <<"programming", "coding", "web development", "javascript", "html", "css", "software", "developer">>],
    [topicKey |-> "photography",
     keywords |-> <<"photography", "photo", "camera", "picture", "image", "lens", "exposure">>]
  >>

NoDetection == [topicIndex |-> 0, confidence |-> 3, category |-> "general"]

\* lines 625-678: the first template whose key the lower-cased query
\* includes, else the first template with a keyword the query includes
DetectTopic(query) ==
  LET lowerQuery == ToLowerCase(CharsOf(query))
      direct == {i \in DOMAIN TopicDatabase :
                   Includes(lowerQuery, CharsOf(TopicDatabase[i].key))}
      byKeyword == {i \in DOMAIN KeywordMap :
                      \E k \in Range(KeywordMap[i].keywords) :
                        Includes(lowerQuery, CharsOf(k))}
  IN  IF direct # {}
        THEN [topicIndex |-> Min(direct), confidence |-> 9,
              category |-> TopicDatabase[Min(direct)].category]
      ELSE IF byKeyword # {}
        THEN [topicIndex |-> Min(byKeyword), confidence |-> 8,
              category |-> TopicDatabase[Min(byKeyword)].category]
      ELSE NoDetection

TopicPrefixes ==
  <<"learn", "how to", "guide to", "tutorial", "course", "master", "study">>
TopicSuffixes ==
  <<"basic", "basics", "fundamental", "fundamentals", "introduction",
    "beginner", "advanced">>

RECURSIVE TrimStart(_)
TrimStart(cs) ==
  IF cs # <<>> /\ Head(cs) = " " THEN TrimStart(Tail(cs)) ELSE cs

RECURSIVE TrimEnd(_)
TrimEnd(cs) ==
  IF cs # <<>> /\ Last(cs) = " "
    THEN TrimEnd(SubSeq(cs, 1, Len(cs) - 1)) ELSE cs

\* String.prototype.trim
Trim(cs) == TrimEnd(TrimStart(cs))

StartsWithWord(cs, w) ==
  Len(cs) >= Len(w) /\ ToLowerCase(SubSeq(cs, 1, Len(w))) = w

\* the word ends the string and whitespace stands before it
EndsWithWord(cs, w) ==
  /\ Len(cs) > Len(w)
  /\ ToLowerCase(SubSeq(cs, Len(cs) - Len(w) + 1, Len(cs))) = w
  /\ cs[Len(cs) - Len(w)] = " "

\* lines 857-862: the leading verb and the trailing level word are cut off,
\* the rest is trimmed; 'Topic' when nothing is left
ExtractMainTopic(query) ==
  LET cs == CharsOf(query)
      pre == {i \in DOMAIN TopicPrefixes :
                StartsWithWord(cs, CharsOf(TopicPrefixes[i]))}
      cut == IF pre = {} THEN cs
             ELSE TrimStart(SubSeq(cs, Len(CharsOf(TopicPrefixes[Min(pre)])) + 1,
                                   Len(cs)))
      suf == {i \in DOMAIN TopicSuffixes :
                EndsWithWord(cut, CharsOf(TopicSuffixes[i]))}
      rest == IF suf = {} THEN cut
              ELSE SubSeq(cut, 1,
                          Len(cut) - Len(CharsOf(TopicSuffixes[Min(suf)])) - 1)
  IN  IF Trim(rest) = <<>> THEN CharsOf("Topic") ELSE Trim(rest)

ToUpperCase(cs) ==
  [i \in DOMAIN cs |->
     IF \E j \in DOMAIN LowerCase : LowerCase[j] = cs[i]
       THEN UpperCase[CHOOSE j \in DOMAIN LowerCase : LowerCase[j] = cs[i]]
       ELSE cs[i]]

\* lines 864-868: every word starts with a capital, the rest is lower case
CapitalizeWords(cs) ==
  [i \in DOMAIN cs |->
     IF i = 1 \/ cs[i - 1] = " " THEN ToUpperCase(<<cs[i]>>)[1]
     ELSE ToLowerCase(<<cs[i]>>)[1]]

\* lines 940-953
MapCategoryToTopic(category) ==
  CASE category = "strategy-games" -> "design"
    [] category = "life-skills" -> "business"
    [] category = "music" -> "design"
    [] category = "creative" -> "design"
    [] category = "technology" -> "web-development"
    [] category = "science" -> "data-science"
    [] category = "business" -> "business"
    [] category = "general" -> "business"
    [] OTHER -> "business"

\* Math.ceil(a / b) and Math.floor(a / b) of naturals
CeilDiv(a, b) == (a + b - 1) \div b
FloorDiv(a, b) == a \div b

\* request.difficulty || 'beginner'
DifficultyOf(request) ==
  IF IsString(request.difficulty) THEN request.difficulty ELSE "beginner"

\* request.duration || fallback: an omitted duration and 0 are both falsy
DurationOf(request, fallback) ==
  IF request.duration # 0 THEN request.duration ELSE fallback

\* lines 768-776
SelectModulesByDifficulty(modules, difficulty) ==
  IF difficulty = "beginner" THEN Take(modules, 3)
  ELSE IF difficulty = "intermediate" THEN Take(modules, 5)
  ELSE modules

Node(type, duration, index) ==
  [content_type |-> type, estimated_duration |-> duration,
   order_index |-> index]

\* lines 710-754: the nodes of the modules, numbered by the running
\* orderIndex
RECURSIVE StructuredNodes(_, _, _)
StructuredNodes(modules, moduleDuration, orderIndex) ==
  IF modules = <<>> THEN <<>>
  ELSE
    LET module == Head(modules)
        resources ==
          [i \in DOMAIN module.resources |->
             Node(module.resources[i].type, module.resources[i].duration,
                  orderIndex + i - 1)]
        afterResources == orderIndex + Len(resources)
        exercise ==
          IF module.exercises > 0
            THEN <<Node("exercise", CeilDiv(moduleDuration * 3, 10),
                        afterResources)>>
            ELSE <<>>
        afterExercise == afterResources + Len(exercise)
        assessment ==
          IF module.assessments > 0
            THEN <<Node("exercise", CeilDiv(moduleDuration * 2, 10),
                        afterExercise)>>
            ELSE <<>>
    IN  resources \o exercise \o assessment
          \o StructuredNodes(Tail(modules), moduleDuration,
                             afterExercise + Len(assessment))

TitlePrefix(difficulty) ==
  CASE difficulty = "beginner" -> <<"Complete Beginner's Guide to ">>
    [] difficulty = "intermediate" -> <<"Intermediate ">>
    [] difficulty = "advanced" -> <<"Advanced Mastery of ">>

CustomTitlePrefix(difficulty) ==
  CASE difficulty = "beginner" -> <<"Learn ">>
    [] difficulty = "intermediate" -> <<"Master ">>
    [] difficulty = "advanced" -> <<"Advanced ">>

\* lines 696-765
GenerateStructuredPath(topic, request) ==
  LET difficulty == DifficultyOf(request)
      duration == DurationOf(request, topic.estimatedHours)
      selectedModules == SelectModulesByDifficulty(topic.modules, difficulty)
      moduleDuration == CeilDiv(duration, Len(selectedModules))
  IN  [title |-> TitlePrefix(difficulty) \o CapitalizeWords(CharsOf(topic.key)),
       topic |-> MapCategoryToTopic(topic.category),
       difficulty_level |-> difficulty,
       estimated_duration |-> duration,
       nodes |-> StructuredNodes(selectedModules, moduleDuration, 1)]

\* lines 817-854: the types of the four custom modules
CustomModules == <<"article", "video", "exercise", "course">>

\* lines 779-814 with Math.floor in place of Math.ceil at line 791
GenerateCustomPath_FloorDuration(request, category) ==
  LET difficulty == DifficultyOf(request)
      duration == DurationOf(request, 20)
      mainTopic == ExtractMainTopic(request.query)
      moduleDuration == FloorDiv(duration, Len(CustomModules))
  IN  [title |-> CustomTitlePrefix(difficulty) \o CapitalizeWords(mainTopic),
       topic |-> MapCategoryToTopic(category),
       difficulty_level |-> difficulty,
       estimated_duration |-> duration,
       nodes |-> [i \in DOMAIN CustomModules |->
                    Node(CustomModules[i], moduleDuration, i)]]

\* lines 779-814 with order_index: index in place of index + 1
GenerateCustomPath_ZeroBased(request, category) ==
  LET difficulty == DifficultyOf(request)
      duration == DurationOf(request, 20)
      mainTopic == ExtractMainTopic(request.query)
      moduleDuration == CeilDiv(duration, Len(CustomModules))
  IN  [title |-> CustomTitlePrefix(difficulty) \o CapitalizeWords(mainTopic),
       topic |-> MapCategoryToTopic(category),
       difficulty_level |-> difficulty,
       estimated_duration |-> duration,
       nodes |-> [i \in DOMAIN CustomModules |->
                    Node(CustomModules[i], moduleDuration, i - 1)]]

\* lines 779-814
GenerateCustomPath(request, category) ==
  LET difficulty == DifficultyOf(request)
      duration == DurationOf(request, 20)
      mainTopic == ExtractMainTopic(request.query)
      moduleDuration == CeilDiv(duration, Len(CustomModules))
  IN  [title |-> CustomTitlePrefix(difficulty) \o CapitalizeWords(mainTopic),
       topic |-> MapCategoryToTopic(category),
       difficulty_level |-> difficulty,
       estimated_duration |-> duration,
       nodes |-> [i \in DOMAIN CustomModules |->
                    Node(CustomModules[i], moduleDuration, i)]]

\* lines 956-1002 for a string query
FallbackPath(request) ==
  LET difficulty == DifficultyOf(request)
      duration == DurationOf(request, 15)
      mainTopic == ExtractMainTopic(request.query)
  IN  [title |-> <<"Learn ">> \o CapitalizeWords(mainTopic),
       topic |-> "business",
       difficulty_level |-> difficulty,
       estimated_duration |-> duration,
       nodes |-> <<Node("article", CeilDiv(duration * 4, 10), 1),
                   Node("video", CeilDiv(duration * 4, 10), 2),
                   Node("exercise", FloorDiv(duration * 2, 10), 3)>>]

NoDocument ==
  [title |-> <<>>, topic |-> "none", difficulty_level |-> "none",
   estimated_duration |-> 0, nodes |-> <<>>]

\* query.toLowerCase (line 631) and query.replace (line 858) of a value that
\* is no string
TypeError == NewError(<<"Cannot read properties of undefined">>)

Returned(doc) == [raised |-> FALSE, error |-> NoError, doc |-> doc]
Raised(e) == [raised |-> TRUE, error |-> e, doc |-> NoDocument]

\* lines 681-688: the body of the try block
GenerateTry(request) ==
  IF ~IsString(request.query) THEN Raised(TypeError)
  ELSE LET detection == DetectTopic(request.query)
       IN  IF detection.topicIndex # 0 /\ detection.confidence > 7
             THEN Returned(GenerateStructuredPath(
                             TopicDatabase[detection.topicIndex], request))
             ELSE Returned(GenerateCustomPath(request, detection.category))

\* lines 956-1002: extractMainTopic is called on request.query first
GenerateFallbackPath(request) ==
  IF ~IsString(request.query) THEN Raised(TypeError)
  ELSE Returned(FallbackPath(request))

\* lines 680-693: what the call settles with, and whether the try block
\* raised
GeneratePath(request) ==
  LET attempt == GenerateTry(request)
  IN  IF attempt.raised THEN GenerateFallbackPath(request) ELSE attempt

IdleGen ==
  [pc |-> "idle", request |-> [query |-> "", difficulty |-> Undefined,
                               duration |-> 0],
   caught |-> FALSE, error |-> NoError, doc |-> NoDocument]

\* a call of generatePath: the body has no await before its last one, so the
\* call settles in one step
GeneratePathCall(request) ==
  /\ gen.pc = "idle"
  /\ LET outcome == GeneratePath(request)
     IN  gen' = [pc |-> IF outcome.raised THEN "rejected" ELSE "resolved",
                 request |-> request,
                 caught |-> GenerateTry(request).raised,
                 error |-> outcome.error,
                 doc |-> outcome.doc]
  /\ UNCHANGED <<ts, rk>>
  /\ UNCHANGED <<dbVars, searchVars, uiVars, writeVars>>

OrderIndices(nodes) == [i \in DOMAIN nodes |-> nodes[i].order_index]

\* ------------------------------------------------------------------------
\* generateTopicSuggestions as a call with its store read
\* (aiSearch.ts 309-341)
\* ------------------------------------------------------------------------
IdleSuggest ==
  [pc |-> "idle", intent |-> NoIntent, resp |-> NoResp, result |-> <<>>]

\* lines 310-324: the call is given the intent of the query and issues the
\* read of the popular topics
SuggestCall(query) ==
  /\ ts.pc = "idle"
  /\ ts' = [ts EXCEPT !.pc = "read", !.intent = ParseQueryIntent(query)]
  /\ UNCHANGED <<gen, rk>>
  /\ UNCHANGED <<dbVars, searchVars, uiVars, writeVars>>

\* lines 328-333: the store answers with the topics of at most five public
\* rows, or with an error
StoreTopicsAnswer(answers) ==
  /\ ts.pc = "read"
  /\ \E a \in {Resp(<<>>, e) : e \in StoreErrors}
           \cup {Resp(topics, NoError) : topics \in answers} :
       ts' = [ts EXCEPT !.pc = "answered", !.resp = a]
  /\ UNCHANGED <<gen, rk>>
  /\ UNCHANGED <<dbVars, searchVars, uiVars, writeVars>>

\* lines 335-340
SuggestReturn ==
  /\ ts.pc = "answered"
  /\ ts' = [ts EXCEPT !.pc = "done",
                      !.result = TopicSuggestions(ts.intent, ts.resp.data)]
  /\ UNCHANGED <<gen, rk>>
  /\ UNCHANGED <<dbVars, searchVars, uiVars, writeVars>>

\* ------------------------------------------------------------------------
\* calculateRelevanceScore applied to two paths (aiSearch.ts 264-306)
\* ------------------------------------------------------------------------
NoRankedPath ==
  [title |-> "", description |-> "", topic |-> "", difficulty_level |-> "",
   estimated_duration |-> 0, completion_rate |-> 0, total_nodes |-> 0,
   tags |-> <<>>]

IdleRank ==
  [pc |-> "idle", query |-> "", intent |-> NoIntent,
   a |-> NoRankedPath, b |-> NoRankedPath,
   factorsA |-> <<>>, factorsB |-> <<>>,
   scoreA |-> 0, scoreB |-> 0, again |-> 0]

\* the quantities of a path that lines 271-303 add a positive amount for
RankFactors(path, intent, query) ==
  LET lowerQuery == ToLowerCase(CharsOf(query))
      lowerTitle == ToLowerCase(CharsOf(path.title))
      lowerDescription == ToLowerCase(CharsOf(path.description))
      tagged(k) == \E i \in DOMAIN path.tags :
                     Includes(ToLowerCase(CharsOf(path.tags[i])), k)
  IN  << IF Includes(lowerTitle, lowerQuery) THEN 1 ELSE 0,
         CountWhere(intent.keywords, LAMBDA k : Includes(lowerTitle, k)),
         IF Includes(lowerDescription, lowerQuery) THEN 1 ELSE 0,
         CountWhere(intent.keywords, LAMBDA k : Includes(lowerDescription, k)),
         IF path.topic = intent.topic THEN 1 ELSE 0,
         IF path.difficulty_level = intent.difficulty THEN 1 ELSE 0,
         0 - Abs(path.estimated_duration - intent.estimatedDuration),
         path.completion_rate,
         path.total_nodes,
         CountWhere(intent.keywords, tagged) >>

\* lines 139, 194: intelligentSearch parses the query once and hands the
\* intent to the ranking
RankIntent(query) ==
  /\ rk.pc = "idle"
  /\ rk' = [rk EXCEPT !.pc = "intent", !.query = query,
                      !.intent = ParseQueryIntent(query)]
  /\ UNCHANGED <<gen, ts>>
  /\ UNCHANGED <<dbVars, searchVars, uiVars, writeVars>>

\* line 258: the score of two paths under that intent; their factors are
\* recorded with the scores
RankCall(a, b) ==
  /\ rk.pc = "intent"
  /\ rk' = [rk EXCEPT !.pc = "scored", !.a = a, !.b = b,
                      !.factorsA = RankFactors(a, rk.intent, rk.query),
                      !.factorsB = RankFactors(b, rk.intent, rk.query),
                      !.scoreA = RelevanceScore(a, rk.intent, rk.query),
                      !.scoreB = RelevanceScore(b, rk.intent, rk.query)]
  /\ UNCHANGED <<gen, ts>>
  /\ UNCHANGED <<dbVars, searchVars, uiVars, writeVars>>

\* a later call with the arguments of the first
RankAgain ==
  /\ rk.pc = "scored"
  /\ rk' = [rk EXCEPT !.pc = "again",
                      !.again = RelevanceScore(rk.a, rk.intent, rk.query)]
  /\ UNCHANGED <<gen, ts>>
  /\ UNCHANGED <<dbVars, searchVars, uiVars, writeVars>>

\* ------------------------------------------------------------------------
\* The writes: createPath, batchCreateNodes, saveGeneratedPath and
\* updateUserProgress
\* ------------------------------------------------------------------------
\* ids the store gives to inserted learning_paths rows, in order
NewPathIds == <<"p3", "p4">>

NoPath == [id |-> "null", created_by |-> "none", total_nodes |-> 0]

IsSubSeq(part, whole) ==
  \E i \in 0..(Len(whole) - Len(part)) :
    \A j \in 1..Len(part) : whole[i + j] = part[j]

\* lines 364-370: delete every key that includes the pattern
ClearCacheByPattern_ExactKey(cache, pattern) ==
  [k \in {key \in DOMAIN cache : key # pattern} |-> cache[k]]

ClearCacheByPattern(cache, pattern) ==
  [k \in {key \in DOMAIN cache : ~IsSubSeq(pattern, key)} |-> cache[k]]

\* the insert of a learning_paths row: the store gives it the next id
InsertPath(rows, uid, total) ==
  Append(rows, [id |-> NewPathIds[Len(rows) + 1], created_by |-> uid,
                total_nodes |-> total])

\* the rows of learning_nodes a batch adds: path_id and order_index
NodeRows(p, indices) ==
  [i \in DOMAIN indices |-> [path_id |-> p, order_index |-> indices[i]]]

\* the number of learning_nodes rows stored for a path
NodeCount(p) ==
  (IF p \in store THEN Len(NodesOf(p)) ELSE 0)
  + Len(SelectSeq(learning_nodes, LAMBDA n : n.path_id = p))

\* the stored total_nodes of the paths
TotalNodes(p) ==
  IF p \in PathIds THEN Row(p).total_nodes
  ELSE LET rows == SelectSeq(new_paths, LAMBDA r : r.id = p)
       IN  rows[1].total_nodes

StoredPathIds == store \cup {new_paths[i].id : i \in DOMAIN new_paths}

IdleWrite ==
  [pc |-> "idle", pathId |-> "none", nodes |-> <<>>, resp |-> NoResp,
   error |-> NoError, failed |-> FALSE, result |-> NoPath, trace |-> <<>>]

\* ---- createPath (database.ts 377-395) ----
CreatePathCall(total) ==
  /\ cp.pc = "idle"
  /\ cp' = [cp EXCEPT !.pc = "insert", !.nodes = <<total>>]
  /\ UNCHANGED <<new_paths, learning_nodes, profile, bn, sv, up>>
  /\ UNCHANGED <<dbVars, searchVars, uiVars, genVars>>

StoreInsertPath ==
  /\ cp.pc = "insert"
  /\ Len(new_paths) < Len(NewPathIds)
  /\ \/ \E e \in StoreErrors :
          /\ cp' = [cp EXCEPT !.pc = "answered", !.resp = Resp(<<>>, e),
                              !.failed = TRUE]
          /\ UNCHANGED new_paths
     \/ LET rows == InsertPath(new_paths, user, cp.nodes[1])
        IN  /\ new_paths' = rows
            /\ cp' = [cp EXCEPT !.pc = "answered",
                                !.resp = Resp(<<Last(rows)>>, NoError)]
  /\ UNCHANGED <<learning_nodes, profile, bn, sv, up>>
  /\ UNCHANGED <<dbVars, searchVars, uiVars, genVars>>

CreatePathReturn ==
  /\ cp.pc = "answered"
  /\ IF cp.resp.error # NoError
       THEN /\ cp' = [cp EXCEPT !.pc = "rejected", !.error = cp.resp.error]
            /\ UNCHANGED queryCache
       ELSE /\ cp' = [cp EXCEPT !.pc = "resolved", !.result = cp.resp.data[1]]
            /\ queryCache' = EmptyCache
  /\ UNCHANGED <<new_paths, learning_nodes, profile, bn, sv, up>>
  /\ UNCHANGED <<user, store, user_progress, now, ticks, del, fp, pn, gp>>
  /\ UNCHANGED <<searchVars, uiVars, genVars>>

\* ---- batchCreateNodes (database.ts 270-292) ----
BatchCreateNodesCall(p, indices) ==
  /\ bn.pc = "idle"
  /\ p \in StoredPathIds
  /\ bn' = [bn EXCEPT !.pc = "insert", !.pathId = p,
                      !.nodes = NodeRows(p, indices)]
  /\ UNCHANGED <<new_paths, learning_nodes, profile, cp, sv, up>>
  /\ UNCHANGED <<dbVars, searchVars, uiVars, genVars>>

StoreInsertNodes ==
  /\ bn.pc = "insert"
  /\ \/ \E e \in StoreErrors :
          /\ bn' = [bn EXCEPT !.pc = "answered", !.resp = Resp(<<>>, e),
                              !.failed = TRUE]
          /\ UNCHANGED learning_nodes
     \/ /\ learning_nodes' = learning_nodes \o bn.nodes
        /\ bn' = [bn EXCEPT !.pc = "answered", !.resp = Resp(bn.nodes, NoError)]
  /\ UNCHANGED <<new_paths, profile, cp, sv, up>>
  /\ UNCHANGED <<dbVars, searchVars, uiVars, genVars>>

BatchCreateNodesReturn ==
  /\ bn.pc = "answered"
  /\ IF bn.resp.error # NoError
       THEN /\ bn' = [bn EXCEPT !.pc = "rejected", !.error = bn.resp.error]
            /\ UNCHANGED queryCache
       ELSE /\ bn' = [bn EXCEPT !.pc = "resolved"]
            /\ queryCache' = ClearCacheByPattern(queryCache,
                                                 PathNodesKey(bn.pathId))
  /\ UNCHANGED <<new_paths, learning_nodes, profile, cp, sv, up>>
  /\ UNCHANGED <<user, store, user_progress, now, ticks, del, fp, pn, gp>>
  /\ UNCHANGED <<searchVars, uiVars, genVars>>

\* ---- saveGeneratedPath (pathGenerator.ts 1005-1054) ----
SavePrefix == <<"Failed to save learning path: ">>
NoModulesMessage == <<"Cannot create path without learning modules">>

\* the catch block: new Error(`Failed to save learning path: ${error.message}`)
WrapSaveError(thrown) == NewError(SavePrefix \o thrown.message)

\* line 1033: order_index: node.order_index || index + 1
PersistedIndices(indices) ==
  [i \in DOMAIN indices |-> IF indices[i] # 0 THEN indices[i] ELSE i]

\* lines 1011-1027 without the validation of lines 1007-1009
SaveGeneratedPathCall_NoValidation(indices) ==
  /\ sv.pc = "idle"
  /\ sv' = [sv EXCEPT !.pc = "insert_path", !.nodes = indices,
                      !.trace = <<"header">>]
  /\ UNCHANGED <<new_paths, learning_nodes, profile, cp, bn, up>>
  /\ UNCHANGED <<dbVars, searchVars, uiVars, genVars>>

\* lines 1005-1027: the validation, then the insert of the header is issued
SaveGeneratedPathCall(indices) ==
  /\ sv.pc = "idle"
  /\ IF Len(indices) = 0
       THEN sv' = [sv EXCEPT !.pc = "rejected",
                             !.error = WrapSaveError(NewError(NoModulesMessage))]
       ELSE sv' = [sv EXCEPT !.pc = "insert_path", !.nodes = indices,
                             !.trace = <<"header">>]
  /\ UNCHANGED <<new_paths, learning_nodes, profile, cp, bn, up>>
  /\ UNCHANGED <<dbVars, searchVars, uiVars, genVars>>

StoreInsertHeader ==
  /\ sv.pc = "insert_path"
  /\ Len(new_paths) < Len(NewPathIds)
  /\ \/ \E e \in StoreErrors :
          /\ sv' = [sv EXCEPT !.pc = "header_answered", !.resp = Resp(<<>>, e),
                              !.failed = TRUE]
          /\ UNCHANGED new_paths
     \/ LET rows == InsertPath(new_paths, user, Len(sv.nodes))
        IN  /\ new_paths' = rows
            /\ sv' = [sv EXCEPT !.pc = "header_answered",
                                !.resp = Resp(<<Last(rows)>>, NoError)]
  /\ UNCHANGED <<learning_nodes, profile, cp, bn, up>>
  /\ UNCHANGED <<dbVars, searchVars, uiVars, genVars>>

\* lines 1028-1038: the nodes get the new path id and the batch is issued
SaveAfterHeader ==
  /\ sv.pc = "header_answered"
  /\ IF sv.resp.error # NoError
       THEN sv' = [sv EXCEPT !.pc = "rejected",
                             !.error = WrapSaveError(sv.resp.error)]
       ELSE sv' = [sv EXCEPT !.pc = "insert_nodes",
                             !.result = sv.resp.data[1],
                             !.pathId = sv.resp.data[1].id,
                             !.nodes = NodeRows(sv.resp.data[1].id,
                                                PersistedIndices(sv.nodes)),
                             !.resp = NoResp,
                             !.trace = @ \o <<"nodes">>]
  /\ UNCHANGED <<new_paths, learning_nodes, profile, cp, bn, up>>
  /\ UNCHANGED <<dbVars, searchVars, uiVars, genVars>>

StoreInsertSavedNodes ==
  /\ sv.pc = "insert_nodes"
  /\ \/ \E e \in StoreErrors :
          /\ sv' = [sv EXCEPT !.pc = "nodes_answered", !.resp = Resp(<<>>, e),
                              !.failed = TRUE]
          /\ UNCHANGED learning_nodes
     \/ /\ learning_nodes' = learning_nodes \o sv.nodes
        /\ sv' = [sv EXCEPT !.pc = "nodes_answered",
                            !.resp = Resp(<<>>, NoError)]
  /\ UNCHANGED <<new_paths, profile, cp, bn, up>>
  /\ UNCHANGED <<dbVars, searchVars, uiVars, genVars>>

\* lines 1040-1045 with the error of the node batch ignored
SaveAfterNodes_IgnoreError ==
  /\ sv.pc = "nodes_answered"
  /\ sv' = [sv EXCEPT !.pc = "update_total", !.resp = NoResp,
                      !.trace = @ \o <<"total_nodes">>]
  /\ UNCHANGED <<new_paths, learning_nodes, profile, cp, bn, up>>
  /\ UNCHANGED <<dbVars, searchVars, uiVars, genVars>>

\* lines 1040-1045: throw on an error, else issue the update of total_nodes
SaveAfterNodes ==
  /\ sv.pc = "nodes_answered"
  /\ IF sv.resp.error # NoError
       THEN sv' = [sv EXCEPT !.pc = "rejected",
                             !.error = WrapSaveError(sv.resp.error)]
       ELSE sv' = [sv EXCEPT !.pc = "update_total", !.resp = NoResp,
                             !.trace = @ \o <<"total_nodes">>]
  /\ UNCHANGED <<new_paths, learning_nodes, profile, cp, bn, up>>
  /\ UNCHANGED <<dbVars, searchVars, uiVars, genVars>>

\* the update of total_nodes: its answer is awaited but never read
StoreUpdateTotal ==
  /\ sv.pc = "update_total"
  /\ \/ \E e \in StoreErrors :
          /\ sv' = [sv EXCEPT !.pc = "total_answered", !.resp = Resp(<<>>, e),
                              !.failed = TRUE]
          /\ UNCHANGED new_paths
     \/ /\ new_paths' = [i \in DOMAIN new_paths |->
                           IF new_paths[i].id = sv.pathId
                             THEN [new_paths[i] EXCEPT
                                     !.total_nodes = Len(sv.nodes)]
                             ELSE new_paths[i]]
        /\ sv' = [sv EXCEPT !.pc = "total_answered",
                            !.resp = Resp(<<>>, NoError)]
  /\ UNCHANGED <<learning_nodes, profile, cp, bn, up>>
  /\ UNCHANGED <<dbVars, searchVars, uiVars, genVars>>

\* lines 1047-1049: clearAllCache and return the header
SaveGeneratedPathReturn ==
  /\ sv.pc = "total_answered"
  /\ sv' = [sv EXCEPT !.pc = "resolved", !.trace = @ \o <<"clear">>]
  /\ queryCache' = EmptyCache
  /\ UNCHANGED <<new_paths, learning_nodes, profile, cp, bn, up>>
  /\ UNCHANGED <<user, store, user_progress, now, ticks, del, fp, pn, gp>>
  /\ UNCHANGED <<searchVars, uiVars, genVars>>

\* ---- updateUserProgress (database.ts 137-199) ----
ProgressUpdates ==
  { [nodeId |-> "n1", status |-> "completed"],
    [nodeId |-> "n2", status |-> "in_progress"] }

ExistingProgress(rows, uid, nodeId) ==
  SelectSeq(rows, LAMBDA r : r.user_id = uid /\ r.node_id = nodeId)

UpdateUserProgressCall(w, p, update) ==
  /\ up[w].pc = "idle"
  /\ up' = [up EXCEPT ![w].pc = "select", ![w].pathId = p, ![w].nodes = <<update>>]
  /\ UNCHANGED <<new_paths, learning_nodes, profile, cp, bn, sv>>
  /\ UNCHANGED <<dbVars, searchVars, uiVars, genVars>>

\* the lookup: only its data member is read (line 140)
StoreSelectExisting(w) ==
  /\ up[w].pc = "select"
  /\ \E a \in {Resp(<<>>, e) : e \in StoreErrors}
           \cup {Resp(ExistingProgress(user_progress, user, up[w].nodes[1].nodeId),
                      NoError)} :
       up' = [up EXCEPT ![w].pc = "selected", ![w].resp = a,
                        ![w].failed = a.error # NoError]
  /\ UNCHANGED <<new_paths, learning_nodes, profile, cp, bn, sv>>
  /\ UNCHANGED <<dbVars, searchVars, uiVars, genVars>>

UpdateAfterSelect(w) ==
  /\ up[w].pc = "selected"
  /\ up' = [up EXCEPT ![w].pc = IF up[w].resp.data # <<>> THEN "update" ELSE "insert",
                      ![w].resp = NoResp]
  /\ UNCHANGED <<new_paths, learning_nodes, profile, cp, bn, sv>>
  /\ UNCHANGED <<dbVars, searchVars, uiVars, genVars>>

ProgressRow(uid, p, update) ==
  [user_id |-> uid, path_id |-> p, node_id |-> update.nodeId,
   status |-> update.status]

\* the update ... .eq('id', existing.id).select().single()
StoreUpdateProgress(w) ==
  /\ up[w].pc = "update"
  /\ LET row == ProgressRow(user, up[w].pathId, up[w].nodes[1])
         hit(r) == r.user_id = user /\ r.node_id = row.node_id
     IN  \/ \E e \in StoreErrors :
              /\ up' = [up EXCEPT ![w].pc = "written", ![w].resp = Resp(<<>>, e),
                                  ![w].failed = TRUE]
              /\ UNCHANGED user_progress
         \/ /\ \E i \in DOMAIN user_progress : hit(user_progress[i])
            /\ user_progress' =
                 [i \in DOMAIN user_progress |->
                    IF hit(user_progress[i])
                      THEN [user_progress[i] EXCEPT !.status = row.status]
                      ELSE user_progress[i]]
            /\ up' = [up EXCEPT ![w].pc = "written",
                                ![w].resp = Resp(<<row>>, NoError)]
  /\ UNCHANGED <<new_paths, learning_nodes, profile, cp, bn, sv>>
  /\ UNCHANGED <<user, store, now, ticks, queryCache, del, fp, pn, gp>>
  /\ UNCHANGED <<searchVars, uiVars, genVars>>

StoreInsertProgress(w) ==
  /\ up[w].pc = "insert"
  /\ LET row == ProgressRow(user, up[w].pathId, up[w].nodes[1])
     IN  \/ \E e \in StoreErrors :
              /\ up' = [up EXCEPT ![w].pc = "written", ![w].resp = Resp(<<>>, e),
                                  ![w].failed = TRUE]
              /\ UNCHANGED user_progress
         \/ /\ user_progress' = Append(user_progress, row)
            /\ up' = [up EXCEPT ![w].pc = "written",
                                ![w].resp = Resp(<<row>>, NoError)]
  /\ UNCHANGED <<new_paths, learning_nodes, profile, cp, bn, sv>>
  /\ UNCHANGED <<user, store, now, ticks, queryCache, del, fp, pn, gp>>
  /\ UNCHANGED <<searchVars, uiVars, genVars>>

\* lines 163-164, 182-190 and 194-198, with updateUserStats lines 234-243:
\* a write error is caught and null is returned; else the statistics follow
\* for a completed node, or the cache is cleared and the row returned
UpdateAfterWrite(w) ==
  /\ up[w].pc = "written"
  /\ IF up[w].resp.error # NoError
       THEN /\ up' = [up EXCEPT ![w].pc = "resolved", ![w].result = NoPath]
            /\ UNCHANGED queryCache
       ELSE IF up[w].nodes[1].status = "completed"
         THEN /\ up' = [up EXCEPT ![w].pc = "stats_select",
                                  ![w].result = [NoPath EXCEPT !.id = up[w].pathId]]
              /\ UNCHANGED queryCache
         ELSE /\ up' = [up EXCEPT ![w].pc = "resolved",
                                  ![w].result = [NoPath EXCEPT !.id = up[w].pathId]]
              /\ queryCache' =
                   ClearCacheByPattern(queryCache, <<"progress-", user>>)
  /\ UNCHANGED <<new_paths, learning_nodes, profile, cp, bn, sv>>
  /\ UNCHANGED <<user, store, user_progress, now, ticks, del, fp, pn, gp>>
  /\ UNCHANGED <<searchVars, uiVars, genVars>>

StoreSelectProfile(w) ==
  /\ up[w].pc = "stats_select"
  /\ \E a \in {Resp(<<>>, e) : e \in StoreErrors}
           \cup {Resp(<<profile>>, NoError)} :
       up' = [up EXCEPT ![w].pc = "stats_selected", ![w].resp = a,
                        ![w].failed = @ \/ a.error # NoError]
  /\ UNCHANGED <<new_paths, learning_nodes, profile, cp, bn, sv>>
  /\ UNCHANGED <<dbVars, searchVars, uiVars, genVars>>

\* lines 243-256 and 262-264, then 194-198 when the statistics gave up
UpdateStatsAfterSelect(w) ==
  /\ up[w].pc = "stats_selected"
  /\ IF up[w].resp.error # NoError
       THEN /\ up' = [up EXCEPT ![w].pc = "resolved", ![w].resp = NoResp]
            /\ queryCache' =
                 ClearCacheByPattern(queryCache, <<"progress-", user>>)
       ELSE /\ up' = [up EXCEPT ![w].pc = "stats_update"]
            /\ UNCHANGED queryCache
  /\ UNCHANGED <<new_paths, learning_nodes, profile, cp, bn, sv>>
  /\ UNCHANGED <<user, store, user_progress, now, ticks, del, fp, pn, gp>>
  /\ UNCHANGED <<searchVars, uiVars, genVars>>

Max(a, b) == IF a > b THEN a ELSE b

StoreUpdateProfile(w) ==
  /\ up[w].pc = "stats_update"
  /\ LET read == up[w].resp.data[1]
         newStreak == read.current_streak + 1
     IN  \/ \E e \in StoreErrors :
              /\ up' = [up EXCEPT ![w].pc = "stats_written",
                                  ![w].resp = Resp(<<>>, e), ![w].failed = TRUE]
              /\ UNCHANGED profile
         \/ /\ profile' = [total_points |-> read.total_points + 10,
                           current_streak |-> newStreak,
                           longest_streak |->
                             Max(read.longest_streak, newStreak)]
            /\ up' = [up EXCEPT ![w].pc = "stats_written",
                                ![w].resp = Resp(<<>>, NoError)]
  /\ UNCHANGED <<new_paths, learning_nodes, cp, bn, sv>>
  /\ UNCHANGED <<dbVars, searchVars, uiVars, genVars>>

\* lines 258-264 and 194-198
UpdateUserProgressReturn(w) ==
  /\ up[w].pc = "stats_written"
  /\ up' = [up EXCEPT ![w].pc = "resolved", ![w].resp = NoResp]
  /\ queryCache' =
       ClearCacheByPattern(
         IF up[w].resp.error = NoError
           THEN ClearCacheByPattern(queryCache, <<"profile-", user>>)
           ELSE queryCache,
         <<"progress-", user>>)
  /\ UNCHANGED <<new_paths, learning_nodes, profile, cp, bn, sv>>
  /\ UNCHANGED <<user, store, user_progress, now, ticks, del, fp, pn, gp>>
  /\ UNCHANGED <<searchVars, uiVars, genVars>>

\* the writes before any call
WriteIdle ==
  /\ new_paths = <<>>
  /\ learning_nodes = <<>>
  /\ profile = [total_points |-> 0, current_streak |-> 0, longest_streak |-> 0]
  /\ cp = IdleWrite
  /\ bn = IdleWrite
  /\ sv = IdleWrite
  /\ up = [w \in UpdateCalls |-> IdleWrite]
  /\ gen = IdleGen
  /\ ts = IdleSuggest
  /\ rk = IdleRank

\* ------------------------------------------------------------------------
\* Specification of the delete protocol under concurrent reads
\* ------------------------------------------------------------------------
InitialProgress ==
  <<[user_id |-> "u1", path_id |-> "p1", node_id |-> "n1",
     status |-> "in_progress"]>>

InitDb ==
  /\ user \in Users
  /\ store = PathIds
  /\ user_progress = InitialProgress
  /\ now = 0
  /\ ticks = 0
  /\ queryCache = EmptyCache
  /\ del = [c \in DeleteCalls |-> IdleDelete]
  /\ fp = [r \in PathsCalls |-> IdleFetch]
  /\ pn = [r \in NodesCalls |-> IdleRead]
  /\ gp = [r \in ProgressCalls |-> IdleRead]

SearchIdle ==
  /\ searchCache = EmptyCache
  /\ timers = <<>>
  /\ sr = [s \in SearchCalls |-> IdleSearch]
  /\ searches = 0
  /\ cachedLog = EmptyCache

Init ==
  InitDb /\ openaiConfigured = FALSE /\ SearchIdle /\ UIIdle /\ WriteIdle

DeleteStep ==
  \E c \in {"d1"} :
    \/ \E p \in PathIds : DeletePathCall(c, p)
    \/ StoreSelectPath(c)
    \/ DeletePathAfterSelect(c)
    \/ StoreDeletePath(c)
    \/ DeletePathAfterDelete(c)
    \/ DeletePathSettled(c)

FetchPathsStep ==
  \E r \in {"f1"} :
    \/ \E f \in FetchFilters : FetchPathsCall(r, f)
    \/ StoreQueryPaths(r)
    \/ FetchPathsReturn(r)

FetchPathWithNodesStep(paths) ==
  \E r \in NodesCalls :
    \/ \E p \in paths : FetchPathWithNodesCall(r, p)
    \/ StoreSelectPathWithNodes(r)
    \/ FetchPathWithNodesReturn(r)

GetUserProgressStep(paths) ==
  \E r \in ProgressCalls :
    \/ \E p \in paths : GetUserProgressCall(r, p)
    \/ StoreSelectProgress(r)
    \/ GetUserProgressReturn(r)

Next ==
  \/ DeleteStep
  \/ FetchPathsStep
  \/ FetchPathWithNodesStep(PathIds)
  \/ Tick(SETTLE_DELAY, MaxSettleTicks)

vars == <<dbVars, searchVars, uiVars, writeVars, genVars>>

Spec == Init /\ [][Next]_vars

\* ------------------------------------------------------------------------
\* Specification of the cached reads as time passes
\* ------------------------------------------------------------------------
NextTTL ==
  \/ FetchPathWithNodesStep({"p1"})
  \/ GetUserProgressStep({"p1"})
  \/ Tick(1, MaxTicks)
  \/ Tick(CACHE_DURATION - 1, MaxTicks)

SpecTTL == Init /\ [][NextTTL]_vars

\* ------------------------------------------------------------------------
\* Specification of the search cache: overlapping searches and expiry timers
\* ------------------------------------------------------------------------
InitSearch ==
  /\ InitDb
  /\ user = "u1"
  /\ openaiConfigured \in BOOLEAN
  /\ SearchIdle
  /\ UIIdle
  /\ WriteIdle

NextSearch ==
  \/ SearchStep(SearchCalls)
  \/ EnhanceStep
  \/ TimerStep
  \/ Tick(SETTLE_DELAY, MaxSearchTicks)
  \/ Tick(SEARCH_TTL - SETTLE_DELAY, MaxSearchTicks)

SpecSearch == InitSearch /\ [][NextSearch]_vars

\* ------------------------------------------------------------------------
\* Specification of the search cache under a delete
\* ------------------------------------------------------------------------
InitSearchDelete ==
  /\ InitDb
  /\ openaiConfigured = FALSE
  /\ SearchIdle
  /\ UIIdle
  /\ WriteIdle

NextSearchDelete ==
  \/ SearchStep({"s1"})
  \/ \E c \in {"d1"} :
       \/ \E p \in PathIds : DeletePathCall(c, p)
       \/ StoreSelectPath(c)
       \/ DeletePathAfterSelect(c)
       \/ StoreDeletePath(c)
       \/ DeletePathAfterDelete(c)
       \/ DeletePathSettled(c)
  \/ Tick(SETTLE_DELAY, MaxSettleTicks)

SpecSearchDelete == InitSearchDelete /\ [][NextSearchDelete]_vars

\* ------------------------------------------------------------------------
\* Specification of the page deleting a path
\* ------------------------------------------------------------------------
\* the page is mounted: the first effect has called fetchPaths (line 389)
InitUI ==
  /\ user = "u1"
  /\ store = PathIds
  /\ user_progress = InitialProgress
  /\ now = 0
  /\ ticks = 0
  /\ queryCache = EmptyCache
  /\ del = [c \in DeleteCalls |-> IdleDelete]
  /\ fp = [[r \in PathsCalls |-> IdleFetch] EXCEPT
             !["f1"] = [pc |-> "query", filters |-> UIFilters("all", "all"),
                        resp |-> NoResp, result |-> <<>>]]
  /\ pn = [r \in NodesCalls |-> IdleRead]
  /\ gp = [r \in ProgressCalls |-> IdleRead]
  /\ openaiConfigured = FALSE
  /\ SearchIdle
  /\ searchQuery = ""
  /\ selectedCategory = "all"
  /\ selectedDifficulty = "all"
  /\ uiPaths = <<>>
  /\ loading = TRUE
  /\ searchResults = <<>>
  /\ isSearching = FALSE
  /\ toasts = {}
  /\ hd = IdleHandler
  /\ WriteIdle

NextUI ==
  \/ \E category \in Categories : SetSelectedCategory(category)
  \/ \E q \in Queries : SetSearchQuery(q)
  \/ FetchPathsLoaded
  \/ SearchLoaded
  \/ \E p \in PathIds : HandleDeletePath(p)
  \/ HandleDeleteResolved
  \/ HandleDeleteRejected
  \/ VerifyTimerFires
  \/ RefreshDone
  \/ VerifyFetched
  \/ RestoreFetched
  \/ \E r \in PathsCalls : StoreQueryPaths(r) \/ FetchPathsReturn(r)
  \/ \E s \in {"s1"} :
       \/ StoreSearchPaths(s)
       \/ SearchAfterQuery(s)
       \/ StorePopularTopics(s)
       \/ SearchReturn(s)
  \/ \E c \in {"d1"} :
       \/ StoreSelectPath(c)
       \/ DeletePathAfterSelect(c)
       \/ StoreDeletePath(c)
       \/ DeletePathAfterDelete(c)
       \/ DeletePathSettled(c)
  \/ Tick(SETTLE_DELAY, MaxUITicks)

SpecUI == InitUI /\ [][NextUI]_vars

\* ------------------------------------------------------------------------
\* Specification of the search with the completion service configured
\* ------------------------------------------------------------------------
EnhancedQueries ==
  {"react", "quantum physics", "advanced machine learning deep dive"}

InitEnhance ==
  /\ InitDb
  /\ user = "u1"
  /\ openaiConfigured = TRUE
  /\ SearchIdle
  /\ UIIdle
  /\ WriteIdle

NextEnhance ==
  \/ \E q \in EnhancedQueries : SearchCall("s1", q, NoSearchFilters)
  \/ SearchAfterEnhance("s1")
  \/ StoreSearchPaths("s1")
  \/ SearchAfterQuery("s1")
  \/ StorePopularTopics("s1")
  \/ SearchReturn("s1")

SpecEnhance == InitEnhance /\ [][NextEnhance]_vars

\* ------------------------------------------------------------------------
\* Specification of the writes
\* ------------------------------------------------------------------------
\* the order_index lists of the documents handed to saveGeneratedPath and of
\* the batches handed to batchCreateNodes
SavedDocs == { <<>>, <<1, 2>>, <<0, 0>> }
NodeBatches == { <<1>> }

InitWrite ==
  /\ InitDb
  /\ user = "u1"
  /\ openaiConfigured = FALSE
  /\ SearchIdle
  /\ UIIdle
  /\ WriteIdle

CreatePathStep ==
  \/ CreatePathCall(0)
  \/ StoreInsertPath
  \/ CreatePathReturn

BatchCreateNodesStep ==
  \/ \E p \in PathIds \cup Range(NewPathIds) :
       \E b \in NodeBatches : BatchCreateNodesCall(p, b)
  \/ StoreInsertNodes
  \/ BatchCreateNodesReturn

SaveGeneratedPathStep ==
  \/ \E d \in SavedDocs : SaveGeneratedPathCall(d)
  \/ StoreInsertHeader
  \/ SaveAfterHeader
  \/ StoreInsertSavedNodes
  \/ SaveAfterNodes
  \/ StoreUpdateTotal
  \/ SaveGeneratedPathReturn

UpdateUserProgressSteps(w, updates) ==
  \/ \E u \in updates : UpdateUserProgressCall(w, "p1", u)
  \/ StoreSelectExisting(w)
  \/ UpdateAfterSelect(w)
  \/ StoreUpdateProgress(w)
  \/ StoreInsertProgress(w)
  \/ UpdateAfterWrite(w)
  \/ StoreSelectProfile(w)
  \/ UpdateStatsAfterSelect(w)
  \/ StoreUpdateProfile(w)
  \/ UpdateUserProgressReturn(w)

UpdateUserProgressStep == UpdateUserProgressSteps("w1", ProgressUpdates)

NextWrite ==
  \/ CreatePathStep
  \/ BatchCreateNodesStep
  \/ SaveGeneratedPathStep
  \/ UpdateUserProgressStep

SpecWrite == InitWrite /\ [][NextWrite]_vars

\* ------------------------------------------------------------------------
\* Properties of deletePath
\* ------------------------------------------------------------------------
\* a cached payload names path p
ContainsPath(data, p) ==
  \E i \in DOMAIN data :
    \/ "id" \in DOMAIN data[i] /\ data[i].id = p
    \/ "path_id" \in DOMAIN data[i] /\ data[i].path_id = p

Started(c) == del[c].pc # "idle"
Finished(c) == del[c].pc \in {"resolved", "rejected"}
NotOwner(c) == Started(c) /\ Row(del[c].pathId).created_by # del[c].userId
RejectedWith(c, msg) ==
  /\ del[c].pc = "rejected"
  /\ del[c].error = [tag |-> "Error", instanceofError |-> TRUE,
                     message |-> <<"Failed to delete learning path: ">> \o msg]
StoreMessage(e) ==
  IF e.instanceofError THEN e.message ELSE <<"Unknown deletion error">>

\* C1 as stated: a deletePath(P, V) call by a user V who is not the stored
\* owner of P ends rejected with the not-authorized outcome, has issued no
\* delete statement and leaves P in the store.
C1_Original ==
  \A c \in DeleteCalls :
    (NotOwner(c) /\ Finished(c)) =>
       /\ RejectedWith(c, NotOwnerMessage)
       /\ "delete" \notin Range(del[c].trace)
       /\ del[c].pathId \in store

\* C1 (amended): a deletePath(P, V) call by a user V who is not the stored
\* owner of P never issues a delete statement, leaves P in the store and no
\* step of it changes the query cache; it rejects with the not-authorized
\* outcome when the lookup returned the row of P, with the not-found outcome
\* when the lookup returned zero rows (row-level security hides a private P
\* from V), and with the wrapped store error when the lookup failed.
C1_NotOwnerState ==
  \A c \in DeleteCalls :
    NotOwner(c) =>
       /\ "delete" \notin Range(del[c].trace)
       /\ del[c].pc \notin {"delete", "deleted", "settle", "resolved"}
       /\ del[c].pathId \in store
       /\ Finished(c) =>
            \/ /\ del[c].resp.error = NoError
               /\ del[c].resp.data # NullRow
               /\ RejectedWith(c, NotOwnerMessage)
            \/ /\ del[c].resp.error = NoError
               /\ del[c].resp.data = NullRow
               /\ ~Visible(Row(del[c].pathId), del[c].userId)
               /\ RejectedWith(c, NotFoundMessage)
            \/ /\ del[c].resp.error \in StoreErrors
               /\ RejectedWith(c, StoreMessage(del[c].resp.error))

C1_NotOwnerStep ==
  \A c \in DeleteCalls :
    (del'[c] # del[c] /\ Row(del'[c].pathId).created_by # del'[c].userId)
      => (queryCache' = queryCache /\ store' = store)

C1_NotOwnerRejects == []C1_NotOwnerState /\ [][C1_NotOwnerStep]_vars

\* a non-owner was refused by the ownership check while the cache held entries
C1_Witness ==
  \E c \in DeleteCalls :
    /\ NotOwner(c)
    /\ RejectedWith(c, NotOwnerMessage)
    /\ DOMAIN queryCache # {}

\* C2 as stated: once deletePath(P, owner) has reported success (and P is gone
\* from the store), no entry of queryCache has a payload that contains P.
C2_NoCachedDeletedPath ==
  \A c \in DeleteCalls :
    (del[c].pc = "resolved" /\ del[c].pathId \notin store) =>
       \A k \in DOMAIN queryCache :
          ~ContainsPath(queryCache[k].data, del[c].pathId)

\* C7: a deletePath call that resolves has, in this order, issued one lookup
\* and one delete statement, received the acknowledgement, emptied the query
\* cache and made one settle pause of SETTLE_DELAY, with no further store
\* request; the cache is emptied in the step that receives an error-free
\* answer to the delete statement and in no other step of the call, and the
\* call resolves only from the pause, once its delay has passed.
C7_State ==
  \A c \in DeleteCalls :
    /\ del[c].pc = "resolved" =>
         del[c].trace = <<"select", "delete", "ack", "clear", "pause", "resolve">>
    /\ del[c].pc = "settle" =>
         del[c].trace = <<"select", "delete", "ack", "clear", "pause">>
    /\ "clear" \in Range(del[c].trace) =>
         (del[c].resp.error = NoError /\ ~del[c].resp.pending)

C7_Step ==
  \A c \in DeleteCalls :
    /\ (del[c].pc # "settle" /\ del'[c].pc = "settle") =>
         /\ del[c].pc = "deleted"
         /\ del[c].resp.error = NoError
         /\ queryCache' = EmptyCache
         /\ del'[c].wake = now + 1000
    /\ (del'[c] # del[c] /\ del'[c].pc # "settle") =>
         queryCache' = queryCache
    /\ (del[c].pc # "resolved" /\ del'[c].pc = "resolved") =>
         /\ del[c].pc = "settle"
         /\ now >= del[c].wake
         /\ store' = store

C7_ClearThenSettle == []C7_State /\ [][C7_Step]_vars

\* a delete resolved after it emptied a cache that held an entry
C7_Witness ==
  \E c \in DeleteCalls :
    /\ del[c].pc = "resolved"
    /\ now >= 1000
    /\ \E r \in PathsCalls : fp[r].pc = "done" /\ fp[r].result # <<>>

\* C9: a deletePath call whose lookup returns zero rows rejects with the
\* not-found message; the message received tells the three rejections after
\* the lookup apart (not found: zero rows, not authorized: a row of another
\* owner, store error: the lookup failed); none of them issued a delete
\* statement.
C9_NotFoundDistinct ==
  \A c \in DeleteCalls :
    (del[c].pc = "rejected" /\ del[c].trace = <<"select", "reject">>) =>
       /\ (del[c].resp.error = NoError /\ del[c].resp.data = NullRow)
            <=> RejectedWith(c, NotFoundMessage)
       /\ (del[c].resp.error = NoError /\ del[c].resp.data # NullRow)
            <=> RejectedWith(c, NotOwnerMessage)
       /\ del[c].resp.error # NoError
            <=> (~RejectedWith(c, NotFoundMessage)
                 /\ ~RejectedWith(c, NotOwnerMessage))
       /\ "delete" \notin Range(del[c].trace)

\* a lookup that returned zero rows was rejected
C9_Witness ==
  \E c \in DeleteCalls :
    /\ del[c].pc = "rejected"
    /\ del[c].resp.error = NoError
    /\ del[c].resp.data = NullRow

C10_State ==
  \A c \in DeleteCalls :
    (del[c].pc = "rejected" /\ "delete" \in Range(del[c].trace)) =>
       /\ del[c].resp.error \in StoreErrors
       /\ RejectedWith(c, StoreMessage(del[c].resp.error))

C10_Step ==
  \A c \in DeleteCalls :
    (del[c].pc = "deleted" /\ del'[c].pc = "rejected") =>
       queryCache' = queryCache

CachedReads == {pn[r] : r \in NodesCalls} \cup {gp[r] : r \in ProgressCalls}

\* C4: fetchPathWithNodes and getUserProgress never serve a cached payload
\* older than CACHE_DURATION; a read that finds an older entry is a miss and
\* issues a store read; the passing of time alone never changes the cache.
C4_State ==
  \A call \in CachedReads :
    /\ call.hit => (call.found /\ call.age <= 5 * 60 * 1000)
    /\ (call.found /\ call.age > 5 * 60 * 1000) =>
         (~call.hit /\ call.reads = 1)
    /\ ~call.hit /\ call.pc # "idle" => call.reads = 1

C4_Step == (now' # now) => (queryCache' = queryCache)

C4_NeverServedStale == []C4_State /\ [][C4_Step]_vars

\* a read found an entry older than the TTL
C4_Witness ==
  \E call \in CachedReads : call.found /\ call.age > 5 * 60 * 1000

\* C5 as stated: a read that finds an entry whose age equals the TTL is a hit.
C5_HitAtExactlyTTL ==
  \A call \in CachedReads :
    (call.found /\ call.age = 5 * 60 * 1000) => call.hit


\* ------------------------------------------------------------------------
\* Properties of the search cache
\* ------------------------------------------------------------------------

\* C3 as stated: once deletePath(P, owner) has reported success (and P is gone
\* from the store), an intelligentSearch call made after that never returns a
\* cached result whose paths include P.
C3_NoCachedDeletedPathInSearch ==
  \A s \in SearchCalls :
    (sr[s].pc = "done" /\ sr[s].hit)
      => \A p \in sr[s].deleted : ~ContainsPath(sr[s].result.paths, p)

\* C6 as stated: an intelligentSearch call made less than 5 minutes after a
\* result was cached for its (query, filters), with no mutation of the store,
\* is served from the cache and returns that very result object.
C6_SameObjectWithinTTL ==
  \A s \in SearchCalls :
    (sr[s].pc = "done" /\ sr[s].expect # 0 /\ store = PathIds)
      => (sr[s].hit /\ sr[s].result.oid = sr[s].expect)

\* ------------------------------------------------------------------------
\* Properties of handleDeletePath
\* ------------------------------------------------------------------------

\* C8 as stated: after deletePath(P, owner) has reported success the page
\* performs a delayed re-read, and whenever P is still in the store at that
\* re-read the page raises the verification-failed warning and replaces its
\* path list with the re-read result.
C8_StillInStoreWarns ==
  (hd.pc = "verified" /\ hd.pathId \in store)
    => ("verification-failed" \in toasts /\ uiPaths = fp["f2"].result)

\* ------------------------------------------------------------------------
\* Properties of the writes
\* ------------------------------------------------------------------------
WriteCalls == {cp, bn, sv} \cup {up[w] : w \in UpdateCalls}

\* C11 as stated: a createPath, batchCreateNodes, saveGeneratedPath,
\* updateUserProgress or deletePath call one of whose store calls reported an
\* error rejects: it never resolves, be it with a row or with null.
C11_FailedStoreCallRejects ==
  /\ \A call \in WriteCalls : call.failed => call.pc # "resolved"
  /\ \A c \in DeleteCalls :
       del[c].resp.error # NoError => del[c].pc # "resolved"

\* ------------------------------------------------------------------------
\* Properties of intelligentSearch
\* ------------------------------------------------------------------------
SearchPcs ==
  {"idle", "enhance", "query", "answered", "topics", "topics_answered", "done"}

C12_State == \A s \in SearchCalls : sr[s].pc \in SearchPcs

C12_Step ==
  \A s \in SearchCalls :
    (sr[s].pc = "answered" /\ sr[s].resp.error # NoError /\ sr'[s] # sr[s])
      => /\ sr'[s].pc = "done"
         /\ sr'[s].result.paths = <<>>
         /\ sr'[s].result.suggestedTopics = <<>>
         /\ sr'[s].result.confidence = 0
         /\ UNCHANGED <<searchCache, timers>>

\* C12: intelligentSearch never rejects, and a call whose read of the
\* learning paths was answered with an error resolves, as its next step, to a
\* result with no paths, no suggested topics and confidence 0 (which is not
\* cached).
C12_DegradesOnReadError == []C12_State /\ [][C12_Step]_vars

\* a call that missed the cache has resolved to the degraded result
C12_Witness ==
  \E s \in SearchCalls :
    /\ sr[s].pc = "done" /\ ~sr[s].hit /\ sr[s].n > 0
    /\ sr[s].result = DegradedResult

\* C13 as stated: when the completion service is configured and its call
\* fails (request error or unparseable output), the intent the search goes on
\* with has the topic, difficulty, estimatedDuration and confidence of
\* parseQueryIntent(query).
C13_HeuristicKeptOnFailure ==
  \A s \in SearchCalls :
    (sr[s].pc = "query" /\ sr[s].enhance \in {"request_error", "unparseable"})
      => LET parsed == ParseQueryIntent(sr[s].query)
         IN  /\ sr[s].intent.topic = parsed.topic
             /\ sr[s].intent.difficulty = parsed.difficulty
             /\ sr[s].intent.estimatedDuration = parsed.estimatedDuration
             /\ sr[s].intent.confidence = parsed.confidence

CompletedWrite(call) == call.pc \in {"resolved", "rejected"}

\* C14 as stated: in every state reached after a saveGeneratedPath or
\* batchCreateNodes call has completed, the stored total_nodes of each path
\* equals the number of learning_nodes rows stored for that path.
C14_TotalNodesIsNodeCount ==
  (CompletedWrite(sv) \/ CompletedWrite(bn))
    => \A p \in StoredPathIds : TotalNodes(p) = NodeCount(p)

\* ------------------------------------------------------------------------
\* Specification of one generatePath call whose document is then saved, as
\* HomePage.tsx lines 43-51 and ProfilePage.tsx lines 730-735 do
\* ------------------------------------------------------------------------
GenQueries ==
  {"learn chess", "easy recipe", "Guitar basics", "javascript",
   "photo editing", "learn knitting basics", "quantum physics", "learn",
   Undefined}
GenDifficulties == {Undefined, "beginner", "intermediate", "advanced"}
\* 0 stands for an omitted duration
GenDurations == {0, 7, 12, 20}

GenRequests ==
  [query : GenQueries, difficulty : GenDifficulties, duration : GenDurations]

InitGenerate ==
  /\ InitDb
  /\ user = "u1"
  /\ openaiConfigured = FALSE
  /\ SearchIdle
  /\ UIIdle
  /\ WriteIdle

GeneratePathStep == \E request \in GenRequests : GeneratePathCall(request)

\* saveGeneratedPath(pathStructure, user.id) with the returned document
SaveDocumentStep ==
  /\ gen.pc = "resolved"
  /\ SaveGeneratedPathCall(OrderIndices(gen.doc.nodes))

NextGenerate ==
  \/ GeneratePathStep
  \/ SaveDocumentStep
  \/ StoreInsertHeader
  \/ SaveAfterHeader
  \/ StoreInsertSavedNodes
  \/ SaveAfterNodes
  \/ StoreUpdateTotal
  \/ SaveGeneratedPathReturn

SpecGenerate == InitGenerate /\ [][NextGenerate]_vars

\* the order_index values stored for a path, in insertion order
StoredIndices(p) ==
  LET rows == SelectSeq(learning_nodes, LAMBDA n : n.path_id = p)
  IN  [i \in DOMAIN rows |-> rows[i].order_index]

\* C15: every document generatePath returns has at least one node and its
\* nodes carry the order_index values 1, 2, ..., n in list order, and the
\* rows saveGeneratedPath has stored for the document carry those indices.
C15_ContiguousOrderIndex ==
  /\ gen.pc = "resolved"
       => /\ Len(gen.doc.nodes) >= 1
          /\ \A i \in DOMAIN gen.doc.nodes : gen.doc.nodes[i].order_index = i
  /\ (gen.pc = "resolved" /\ sv.pc = "resolved")
       => StoredIndices(sv.pathId) = OrderIndices(gen.doc.nodes)

\* the fifteen nodes of the chess template were generated and saved
C15_Witness ==
  /\ gen.pc = "resolved" /\ sv.pc = "resolved"
  /\ Len(gen.doc.nodes) = 15
  /\ StoredIndices(sv.pathId) = [i \in 1..15 |-> i]

SuggestQueries ==
  {"react", "react python machine crypto design marketing", "quantum physics",
   "advanced machine learning deep dive"}
StoreTopics == {"cooking", "music", "design", "web-development"}
MaxPopular == 2
\* what the read of the popular topics can return: short lists with
\* repetitions, and a full list of five topics no mapping names
PopularAnswers ==
  UNION {[1..n -> StoreTopics] : n \in 0..MaxPopular}
    \cup {<<"cooking", "music", "fitness", "travel", "history">>}

InitSuggest ==
  /\ InitDb
  /\ openaiConfigured = FALSE
  /\ SearchIdle
  /\ UIIdle
  /\ WriteIdle

SuggestStep == \E query \in SuggestQueries : SuggestCall(query)

NextSuggest ==
  \/ SuggestStep
  \/ StoreTopicsAnswer(PopularAnswers)
  \/ SuggestReturn

SpecSuggest == InitSuggest /\ [][NextSuggest]_vars

IsDistinct(seq) == \A i, j \in DOMAIN seq : seq[i] = seq[j] => i = j

\* C19: the list generateTopicSuggestions returns has at most 6 entries, no
\* entry twice, and holds the topic of the intent whenever the intent has
\* one, whatever the keywords map to and whether the read of the popular
\* topics succeeded or failed.
C19_CappedWithDetectedTopic ==
  ts.pc = "done"
    => /\ Len(ts.result) <= 6
       /\ IsDistinct(ts.result)
       /\ ts.intent.topic # "" => ts.intent.topic \in Range(ts.result)

\* the cap cut topics of the store off and the detected topic is kept
C19_Witness ==
  /\ ts.pc = "done" /\ Len(ts.result) = 6
  /\ ts.intent.topic # "" /\ ts.intent.topic \in Range(ts.result)
  /\ \E t \in Range(ts.resp.data) : t \notin Range(ts.result)

\* ------------------------------------------------------------------------
\* Specification of calculateRelevanceScore over pairs of paths that differ
\* in one column
\* ------------------------------------------------------------------------
RankQueries == {"ai", "advanced machine learning deep dive"}
RankTitles == {"Design drafts", "machine learning", "blockchain"}
RankDescriptions == {"Private design notes", "machine learning", "blockchain"}
RankTopics == {"web-development", "ai-ml"}
RankDifficulties == {"beginner", "advanced"}
RankDurations == {10, 70}
RankCompletion == {0, 1}
RankNodes == {0, 20, 40}
RankTags == {<<>>, <<"react", "machine learning">>}

\* the first path of a pair
RankPaths ==
  [title : RankTitles \ {"blockchain"},
   description : RankDescriptions \ {"blockchain"},
   topic : RankTopics, difficulty_level : RankDifficulties,
   estimated_duration : RankDurations, completion_rate : {0},
   total_nodes : RankNodes \ {40}, tags : RankTags]

\* the paths that differ from a path in at most one column
OneColumnChanged(a) ==
  {[a EXCEPT !.title = v] : v \in RankTitles}
    \cup {[a EXCEPT !.description = v] : v \in RankDescriptions}
    \cup {[a EXCEPT !.topic = v] : v \in RankTopics}
    \cup {[a EXCEPT !.difficulty_level = v] : v \in RankDifficulties}
    \cup {[a EXCEPT !.estimated_duration = v] : v \in RankDurations}
    \cup {[a EXCEPT !.completion_rate = v] : v \in RankCompletion}
    \cup {[a EXCEPT !.total_nodes = v] : v \in RankNodes}
    \cup {[a EXCEPT !.tags = v] : v \in RankTags}

InitRank ==
  /\ InitDb
  /\ openaiConfigured = FALSE
  /\ SearchIdle
  /\ UIIdle
  /\ WriteIdle

RankIntentStep == \E query \in RankQueries : RankIntent(query)

RankStep ==
  \E a \in RankPaths : \E b \in OneColumnChanged(a) : RankCall(a, b)

NextRank ==
  \/ RankIntentStep
  \/ RankStep
  \/ RankAgain

SpecRank == InitRank /\ [][NextRank]_vars

\* one factor of b is above that of a and every other factor is equal
SingleFactorRaised(fa, fb) ==
  \E i \in DOMAIN fa :
    /\ fb[i] > fa[i]
    /\ \A j \in DOMAIN fa : j # i => fb[j] = fa[j]

\* the factor that alone is raised from a to b, 0 when there is none
RaisedFactor ==
  IF SingleFactorRaised(rk.factorsA, rk.factorsB)
    THEN CHOOSE i \in DOMAIN rk.factorsA : rk.factorsB[i] > rk.factorsA[i]
    ELSE 0

HeaderStored(p) == \E i \in DOMAIN new_paths : new_paths[i].id = p

C17_State ==
  /\ sv.pc = "resolved"
       => sv.trace = <<"header", "nodes", "total_nodes", "clear">>
  /\ (sv.pc = "rejected" /\ sv.trace = <<"header", "nodes">>)
       => /\ HeaderStored(sv.pathId)
          /\ bn.pathId # sv.pathId => NodeCount(sv.pathId) = 0

C17_Step ==
  /\ (sv.pc = "nodes_answered" /\ sv.resp.error # NoError /\ sv' # sv)
       => /\ sv'.pc = "rejected"
          /\ sv'.error = WrapSaveError(sv.resp.error)
          /\ UNCHANGED <<new_paths, learning_nodes>>
  /\ (sv.pc = "total_answered" /\ sv' # sv)
       => sv'.pc = "resolved" /\ queryCache' = EmptyCache

\* C17: a saveGeneratedPath call that resolves has issued, in this order, the
\* insert of the header, the insert of the node batch and the update of
\* total_nodes, and then cleared the cache; when the node batch is answered
\* with an error the call rejects, writes nothing more, and the header stays
\* in the store with none of the call's nodes.
C17_SaveOrderNoRollback == []C17_State /\ [][C17_Step]_vars

\* the node batch failed after the header was written
C17_Witness ==
  /\ sv.pc = "rejected" /\ sv.trace = <<"header", "nodes">>
  /\ HeaderStored(sv.pathId) /\ NodeCount(sv.pathId) = 0

C18_State ==
  (sv.pc # "idle" /\ sv.nodes = <<>>)
    => /\ sv.pc = "rejected"
       /\ sv.error = NewError(SavePrefix \o NoModulesMessage)
       /\ sv.trace = <<>>
       /\ ~sv.failed

C18_Step ==
  (sv.pc = "idle" /\ sv'.pc = "rejected")
    => UNCHANGED <<new_paths, learning_nodes, queryCache>>

\* C18: a saveGeneratedPath call with a document of zero nodes rejects at once
\* with the error about missing learning modules: no store call is issued, no
\* row is written and the cache is left as it was.
C18_EmptyDocumentRejected == []C18_State /\ [][C18_Step]_vars

\* a call with an empty document was rejected
C18_Witness ==
  /\ sv.pc = "rejected" /\ sv.nodes = <<>> /\ sv.trace = <<>>
  /\ new_paths = <<>>

\* confidences are kept in tenths: the interval [0, 1] is 0..10
UnitInterval == 0..10

\* C21: the confidence of the intent parseQueryIntent gave the query of a
\* search lies in [0, 1] before and after the enhancement, and so does the
\* confidence of every result intelligentSearch returns or caches:
\* heuristic, enhanced or degraded.
C21_ConfidenceInUnitInterval ==
  /\ \A s \in SearchCalls :
       /\ sr[s].intent.confidence \in UnitInterval
       /\ sr[s].result.confidence \in UnitInterval
  /\ \A k \in DOMAIN searchCache : searchCache[k].confidence \in UnitInterval

\* an enhanced search of a query whose heuristic confidence is 0.9 returned
C21_Witness ==
  /\ openaiConfigured
  /\ sr["s1"].pc = "done"
  /\ sr["s1"].query = "advanced machine learning deep dive"
  /\ sr["s1"].result.confidence = 9

RECURSIVE SumDurations(_)
SumDurations(nodes) ==
  IF nodes = <<>> THEN 0
  ELSE Head(nodes).estimated_duration + SumDurations(Tail(nodes))

\* the query of the call matches no template and a duration was asked for
UnmatchedWithDuration ==
  /\ gen.pc = "resolved"
  /\ gen.request.duration >= 1
  /\ DetectTopic(gen.request.query) = NoDetection

\* C22: for a query that matches no template and a requested duration d >= 1
\* generatePath returns four nodes, an article, a video, an exercise and a
\* course in this order, each of duration ceil(d / 4), so that their sum s
\* has d <= s <= d + 3, and s = 12 for d = 12.
C22_CustomPathDurations ==
  UnmatchedWithDuration
    => LET d == gen.request.duration
           nodes == gen.doc.nodes
           s == SumDurations(nodes)
       IN  /\ [i \in DOMAIN nodes |-> nodes[i].content_type]
                = <<"article", "video", "exercise", "course">>
           /\ \A i \in DOMAIN nodes :
                nodes[i].estimated_duration = (d + 3) \div 4
           /\ d <= s /\ s <= d + 3
           /\ d = 12 => s = 12

\* an unmatched query with duration 7 gave four nodes of duration 2
C22_Witness ==
  /\ UnmatchedWithDuration
  /\ gen.request.duration = 7
  /\ Len(gen.doc.nodes) = 4
  /\ SumDurations(gen.doc.nodes) = 8

Shown(p) == \E i \in DOMAIN DisplayPaths : DisplayPaths[i].id = p

\* C23: handleDeletePath takes the path out of the path list and the search
\* results in the step that issues deletePath, and when deletePath rejected
\* and the path is still in the store, the path is shown again once the
\* restore re-read has completed and returned it.
C23_ShownAgainAfterRestore ==
  /\ (hd.pc = "deleting" /\ del["d1"].pc = "select")
       => /\ \A i \in DOMAIN uiPaths : uiPaths[i].id # hd.pathId
          /\ \A i \in DOMAIN searchResults : searchResults[i].id # hd.pathId
  /\ (hd.pc = "restored" /\ hd.pathId \in store
        /\ \E i \in DOMAIN uiPaths : uiPaths[i].id = hd.pathId)
       => Shown(hd.pathId)

\* ------------------------------------------------------------------------
\* Specification of two overlapping deletePath calls on one path
\* ------------------------------------------------------------------------
\* The store serves the delete statement and applies it: the row is gone
\* afterwards (a statement on a row that is already gone affects zero rows
\* and is no error), dependent rows cascade.
StoreDeletePathApplied(c) ==
  /\ del[c].pc = "delete"
  /\ del' = [del EXCEPT ![c] =
       [@ EXCEPT !.pc = "deleted", !.resp = Resp(<<>>, NoError)]]
  /\ store' = store \ {del[c].pathId}
  /\ user_progress' =
       SelectSeq(user_progress, LAMBDA r : r.path_id # del[c].pathId)
  /\ UNCHANGED <<user, now, ticks, queryCache, fp, pn, gp>>
  /\ UNCHANGED <<searchVars, uiVars>>
  /\ UNCHANGED <<writeVars, genVars>>

RacePath == "p1"

InitRace ==
  /\ InitDb
  /\ user = Row(RacePath).created_by
  /\ openaiConfigured = FALSE
  /\ SearchIdle
  /\ UIIdle
  /\ WriteIdle

RaceStep ==
  \E c \in DeleteCalls :
    \/ DeletePathCall(c, RacePath)
    \/ StoreSelectPath(c)
    \/ DeletePathAfterSelect(c)
    \/ StoreDeletePathApplied(c)
    \/ DeletePathAfterDelete(c)
    \/ DeletePathSettled(c)

NextRace ==
  \/ RaceStep
  \/ Tick(SETTLE_DELAY, MaxSettleTicks)

SpecRace == InitRace /\ [][NextRace]_vars

LookupFailed(c) ==
  /\ del[c].pc = "rejected"
  /\ del[c].resp.error \in StoreErrors

\* C24 as stated: of two overlapping deletePath(P, owner) calls against a
\* store that applies deletes, each call ends with success or with the
\* not-found outcome, at least one reports success, and P is absent from the
\* store once a call has reported success.
C24_Original ==
  /\ \A c \in DeleteCalls :
       Finished(c) => (del[c].pc = "resolved" \/ RejectedWith(c, NotFoundMessage))
  /\ (\A c \in DeleteCalls : Finished(c))
       => \E c \in DeleteCalls : del[c].pc = "resolved"
  /\ (\E c \in DeleteCalls : del[c].pc = "resolved") => RacePath \notin store

\* C24 (amended): of two overlapping deletePath(P, owner) calls against a
\* store that applies deletes, each call whose lookup the store answered
\* without an error ends with success or with the not-found outcome, a call
\* whose lookup failed rejects with the wrapped store error, at least one
\* call reports success unless a lookup failed, and P is absent from the
\* store once a call has reported success.
C24_OverlappingDeletes ==
  /\ \A c \in DeleteCalls :
       Finished(c) =>
         \/ del[c].pc = "resolved"
         \/ RejectedWith(c, NotFoundMessage) /\ ~LookupFailed(c)
         \/ LookupFailed(c) /\ RejectedWith(c, StoreMessage(del[c].resp.error))
  /\ ((\A c \in DeleteCalls : Finished(c))
        /\ ~\E c \in DeleteCalls : LookupFailed(c))
       => \E c \in DeleteCalls : del[c].pc = "resolved"
  /\ (\E c \in DeleteCalls : del[c].pc = "resolved") => RacePath \notin store

\* both calls looked the row up before either deleted it, and both resolved
C24_Witness ==
  /\ \A c \in DeleteCalls :
       /\ del[c].pc = "resolved"
       /\ del[c].trace = <<"select", "delete", "ack", "clear", "pause", "resolve">>
  /\ RacePath \notin store

\* one call resolved and the other, whose lookup came later, was not found
C24_WitnessNotFound ==
  /\ del["d1"].pc = "resolved"
  /\ RejectedWith("d2", NotFoundMessage)
  /\ ~LookupFailed("d2")

\* ------------------------------------------------------------------------
\* Specification of the cached reads under batchCreateNodes and
\* updateUserProgress
\* ------------------------------------------------------------------------
InitEvict ==
  /\ InitDb
  /\ user = "u1"
  /\ openaiConfigured = FALSE
  /\ SearchIdle
  /\ UIIdle
  /\ WriteIdle

BatchCreateStoredStep ==
  \/ \E p \in PathIds : \E b \in NodeBatches : BatchCreateNodesCall(p, b)
  \/ StoreInsertNodes
  \/ BatchCreateNodesReturn

NextEvict ==
  \/ GetUserProgressStep(PathIds)
  \/ FetchPathWithNodesStep({"p1"})
  \/ BatchCreateStoredStep
  \/ UpdateUserProgressStep

SpecEvict == InitEvict /\ [][NextEvict]_vars

\* the characters of the pieces the cache keys are put together from
KeyText(piece) ==
  CASE piece = "path-nodes-" ->
         <<"p", "a", "t", "h", "-", "n", "o", "d", "e", "s", "-">>
    [] piece = "progress-" -> <<"p", "r", "o", "g", "r", "e", "s", "s", "-">>
    [] piece = "profile-" -> <<"p", "r", "o", "f", "i", "l", "e", "-">>
    [] piece = "-" -> <<"-">>
    [] piece = "u1" -> <<"u", "1">>
    [] piece = "u2" -> <<"u", "2">>
    [] piece = "p1" -> <<"p", "1">>
    [] piece = "p2" -> <<"p", "2">>

\* the text of a template string
RECURSIVE KeyChars(_)
KeyChars(key) ==
  IF key = <<>> THEN <<>> ELSE KeyText(Head(key)) \o KeyChars(Tail(key))

\* the step removed exactly the entries whose key text includes the pattern
EvictedExactly(pattern) ==
  /\ DOMAIN queryCache' =
       {k \in DOMAIN queryCache : ~Includes(KeyChars(k), KeyChars(pattern))}
  /\ \A k \in DOMAIN queryCache' : queryCache'[k] = queryCache[k]

\* C25: the eviction of batchCreateNodes(pathId) removes every entry whose
\* key contains 'path-nodes-<pathId>' and the eviction of
\* updateUserProgress(userId) every entry whose key contains
\* 'progress-<userId>'; every other entry keeps its key, payload and write
\* timestamp, and a call that failed evicts nothing.
C25_Step ==
  /\ (bn.pc = "answered" /\ bn'.pc = "resolved")
       => EvictedExactly(<<"path-nodes-", bn.pathId>>)
  /\ (bn.pc = "answered" /\ bn'.pc = "rejected") => queryCache' = queryCache
  /\ (up["w1"].pc # "resolved" /\ up'["w1"].pc = "resolved")
       => IF up'["w1"].result = NoPath THEN queryCache' = queryCache
          ELSE EvictedExactly(<<"progress-", user>>)

C25_EvictsByPattern == [][C25_Step]_vars

\* updateUserProgress has evicted the progress entries of the user's two
\* paths and left the entry of a path's nodes in the cache
C25_Witness ==
  /\ up["w1"].pc = "resolved"
  /\ up["w1"].result # NoPath
  /\ gp["g1"].pc = "done"
  /\ PathNodesKey("p1") \in DOMAIN queryCache
  /\ \A p \in PathIds : ProgressKey(user, p) \notin DOMAIN queryCache


\* the rows name the node of the update with the status of the update
IncludesUpdate(rows, update) ==
  \E i \in DOMAIN rows :
    /\ rows[i].node_id = update.nodeId
    /\ rows[i].status = update.status

\* C26: a getUserProgress(u, p) call that starts after updateUserProgress(u,
\* p, update) has resolved with a record, and is answered from the cache,
\* returns rows that include the update, also when a getUserProgress call
\* was in flight while the update ran.
C26_Step ==
  \A r \in ProgressCalls :
    (/\ up["w1"].pc = "resolved"
     /\ up["w1"].result # NoPath
     /\ gp'[r] # gp[r]
     /\ gp'[r].pc = "done"
     /\ gp'[r].hit
     /\ gp'[r].arg = up["w1"].pathId)
      => IncludesUpdate(gp'[r].result, up["w1"].nodes[1])

C26_ReadsSeeUpdate == [][C26_Step]_vars


\* ------------------------------------------------------------------------
\* Specification of the cached reads and searches when store reads fail
\* ------------------------------------------------------------------------
InitFailure ==
  /\ InitDb
  /\ user = "u1"
  /\ openaiConfigured = FALSE
  /\ SearchIdle
  /\ UIIdle
  /\ WriteIdle

FailureQueries == {"react", "ai"}

SearchFailureStep ==
  \/ \E q \in FailureQueries : SearchCall("s1", q, NoSearchFilters)
  \/ StoreSearchPaths("s1")
  \/ SearchAfterQuery("s1")
  \/ StorePopularTopics("s1")
  \/ SearchReturn("s1")

NextFailure ==
  \/ SearchFailureStep
  \/ TimerStep
  \/ FetchPathWithNodesStep({"p1"})
  \/ GetUserProgressStep({"p1"})
  \/ Tick(CACHE_DURATION, MaxSettleTicks)

SpecFailure == InitFailure /\ [][NextFailure]_vars

\* the read of the call failed and the call has returned its failure result
SearchFailed(s) ==
  sr[s].pc = "done" /\ ~sr[s].hit /\ sr[s].result = DegradedResult
ReadFailed(call) == call.pc = "done" /\ call.resp.error # NoError

\* C27: the step in which intelligentSearch degrades, fetchPathWithNodes
\* returns null or getUserProgress returns [] after a failed store read
\* changes no cache entry and starts no expiry timer; the next identical
\* call of fetchPathWithNodes or getUserProgress issues a new store read, and
\* the next search issues a new store read unless a result that is not a
\* failure result is cached for it.
C27_Step ==
  /\ \A s \in SearchCalls :
       /\ (sr[s].pc = "answered" /\ sr[s].resp.error # NoError
             /\ sr'[s] # sr[s])
            => /\ sr'[s].pc = "done"
               /\ sr'[s].result = DegradedResult
               /\ searchCache' = searchCache
               /\ timers' = timers
       /\ (SearchFailed(s) /\ sr'[s] # sr[s])
            => \/ sr'[s].pc = "query"
               \/ sr'[s].hit /\ sr'[s].result # DegradedResult
  /\ \A r \in NodesCalls :
       /\ (pn[r].pc = "answered" /\ pn[r].resp.error # NoError
             /\ pn'[r] # pn[r])
            => /\ pn'[r].pc = "done"
               /\ pn'[r].result = <<>>
               /\ queryCache' = queryCache
       /\ (ReadFailed(pn[r]) /\ pn'[r] # pn[r]) => pn'[r].pc = "query"
  /\ \A r \in ProgressCalls :
       /\ (gp[r].pc = "answered" /\ gp[r].resp.error # NoError
             /\ gp'[r] # gp[r])
            => /\ gp'[r].pc = "done"
               /\ gp'[r].result = <<>>
               /\ queryCache' = queryCache
       /\ (ReadFailed(gp[r]) /\ gp'[r] # gp[r]) => gp'[r].pc = "query"

C27_FailureNotCached == [][C27_Step]_vars

\* fetchPathWithNodes has returned null after its read failed while the
\* cache still held the expired entry of an earlier call
C27_Witness ==
  /\ ReadFailed(pn["n1"])
  /\ pn["n1"].found
  /\ PathNodesKey("p1") \in DOMAIN queryCache
  /\ queryCache[PathNodesKey("p1")].timestamp = 0

\* a search has degraded while the result of an earlier search is cached
C27_WitnessSearch ==
  /\ SearchFailed("s1")
  /\ sr["s1"].query = "react"
  /\ SearchKey("ai", NoSearchFilters) \in DOMAIN searchCache


\* C28: when the store read of the verification re-read or of the restore
\* re-read in handleDeletePath failed, the step that receives its result
\* leaves the path list as it was.
C28_Step ==
  (/\ hd.pc \in {"verify_fetch", "restore_fetch"}
   /\ hd'.pc # hd.pc
   /\ fp["f2"].resp.error # NoError)
    => uiPaths' = uiPaths

C28_FailedReadKeepsList == [][C28_Step]_vars


\* ------------------------------------------------------------------------
\* Specification of the page when the topic filter changes during a delete
\* ------------------------------------------------------------------------
\* the catalog of the page: a second public path, of topic design
PageCatalog == PathIds \cup {"p9"}

\* the page is mounted: the first effect has called fetchPaths (line 389)
InitPage ==
  /\ user = "u1"
  /\ store = PageCatalog
  /\ user_progress = InitialProgress
  /\ now = 0
  /\ ticks = 0
  /\ queryCache = EmptyCache
  /\ del = [c \in DeleteCalls |-> IdleDelete]
  /\ fp = [[r \in PathsCalls |-> IdleFetch] EXCEPT
             !["f1"] = [pc |-> "query", filters |-> UIFilters("all", "all"),
                        resp |-> NoResp, result |-> <<>>]]
  /\ pn = [r \in NodesCalls |-> IdleRead]
  /\ gp = [r \in ProgressCalls |-> IdleRead]
  /\ openaiConfigured = FALSE
  /\ SearchIdle
  /\ searchQuery = ""
  /\ selectedCategory = "all"
  /\ selectedDifficulty = "all"
  /\ uiPaths = <<>>
  /\ loading = TRUE
  /\ searchResults = <<>>
  /\ isSearching = FALSE
  /\ toasts = {}
  /\ hd = IdleHandler
  /\ WriteIdle

\* the category select of a rendered page with an empty search box (lines
\* 388-398, 589 and 649): the first effect calls fetchPaths, the second one
\* empties the search results; a running handleDeletePath does not disable
\* the select
SelectCategory(category) ==
  /\ ~loading
  /\ searchQuery = ""
  /\ category # selectedCategory
  /\ selectedCategory' = category
  /\ loading' = TRUE
  /\ searchResults' = <<>>
  /\ fp' = [fp EXCEPT !["f1"] =
       [pc |-> "query", filters |-> UIFilters(category, selectedDifficulty),
        resp |-> NoResp, result |-> <<>>]]
  /\ UNCHANGED <<searchQuery, selectedDifficulty, uiPaths, isSearching,
                 toasts, hd>>
  /\ UNCHANGED searchVars
  /\ UNCHANGED <<user, store, user_progress, now, ticks, queryCache, del, pn, gp>>
  /\ UNCHANGED <<writeVars, genVars>>

NextPage ==
  \/ \E category \in Categories : SelectCategory(category)
  \/ FetchPathsLoaded
  \/ \E p \in PageCatalog : HandleDeletePath(p)
  \/ HandleDeleteResolved
  \/ HandleDeleteRejected
  \/ VerifyTimerFires
  \/ RefreshDone
  \/ VerifyFetched
  \/ RestoreFetched
  \/ \E r \in PathsCalls : StoreQueryPaths(r) \/ FetchPathsReturn(r)
  \/ \E c \in {"d1"} :
       \/ StoreSelectPath(c)
       \/ DeletePathAfterSelect(c)
       \/ StoreDeletePath(c)
       \/ DeletePathAfterDelete(c)
       \/ DeletePathSettled(c)
  \/ Tick(SETTLE_DELAY, MaxUITicks)

SpecPage == InitPage /\ [][NextPage]_vars

\* no read of the page or of its delete handler is pending and none failed
ReadsCompleted ==
  /\ ~loading
  /\ hd.pc \in {"idle", "verified", "restored"}
  /\ \A r \in PathsCalls :
       /\ fp[r].pc \in {"idle", "done"}
       /\ fp[r].resp.error = NoError

\* C29: once the reads of the page and of handleDeletePath have completed
\* without a failure, the page shows the paths the store holds for the
\* selected topic and difficulty.
C29_ShowsCurrentFilters ==
  ReadsCompleted
    => DisplayPaths = QueryPaths(store,
                                 UIFilters(selectedCategory, selectedDifficulty),
                                 user)


\* ------------------------------------------------------------------------
\* Specification of overlapping updateUserProgress calls of one user
\* ------------------------------------------------------------------------
CompletedUpdates ==
  { [nodeId |-> "n1", status |-> "completed"],
    [nodeId |-> "n2", status |-> "completed"] }

NextStats == \E w \in UpdateCalls : UpdateUserProgressSteps(w, CompletedUpdates)

SpecStats == InitWrite /\ [][NextStats]_vars

\* every call has resolved and the store has failed none of their calls
AllUpdatesResolved ==
  \A w \in UpdateCalls : up[w].pc = "resolved" /\ ~up[w].failed

\* C30: when no store call failed and the k = 2 updateUserProgress calls
\* with status 'completed' of one user have resolved, total_points has grown
\* by 10 * k and current_streak by k, and longest_streak >= current_streak.
C30_StatsCountEveryUpdate ==
  AllUpdatesResolved
    => /\ profile.total_points = 10 * Cardinality(UpdateCalls)
       /\ profile.current_streak = Cardinality(UpdateCalls)
       /\ profile.longest_streak >= profile.current_streak

============================================================================
